---------------------------- MODULE Spec2Model ----------------------------
(***************************************************************************)
(* A model of the two stateful cores of the training-assistant bot:       *)
(*                                                                         *)
(*   - UserStateManager (src/utils/state_manager.py): the in-memory       *)
(*     conversation-state store, with its lock, its timestamps and the    *)
(*     Python object identity of the stored dicts;                        *)
(*   - FileStorageRepository (src/repositories/file_storage.py): the      *)
(*     JSON files, the repository lock and the write procedures.          *)
(*                                                                         *)
(* Handlers run on concurrent threads; every action below is one atomic   *)
(* step of one thread (a section executed under a lock, or one file       *)
(* system call).                                                          *)
(***************************************************************************)
EXTENDS Integers, Sequences, FiniteSets, TLC

VARIABLES
    \* ---- UserStateManager -------------------------------------------------
    states,            \* self._states: key string -> reference of the stored dict
    state_timestamps,  \* self._state_timestamps: user -> (state_type -> time)
    heap,              \* the dict objects: reference -> content
    smLock,            \* self._lock (threading.Lock): "" when free, else the holder
    spc,               \* per thread: where it stands inside a state-manager call
    sloc,              \* per thread: the arguments and locals of that call
    now,               \* time.time(), in seconds
    calls,             \* the number of state-manager calls handlers have made
    lastSet,           \* the set_state call after which nothing has changed the store
    episode,           \* the update_state calls that overlap in time, for one pair
    \* ---- FileStorageRepository --------------------------------------------
    wfile,             \* workouts/<user>.json: the content on disk, per user
    pfile,             \* progress/<user>.json: the content on disk, per user
    profiles,          \* users.json: the content on disk
    profilesTmp,       \* users.tmp: the temporary file of _write_json
    repoLock,          \* self._lock (threading.Lock): "" when free, else the holder
    rpc,               \* per thread: where it stands inside a repository call
    rloc,              \* per thread: the arguments and locals of that call
    rcalls,            \* the number of repository calls callers have made
    crashed,           \* the process has died
    rdone,             \* the last repository call that returned or raised
    wspec,             \* per user: the workouts data had every call run at once
    pspec,             \* per user: the progress data had every call run at once
    history,           \* per user: the executions that completed writes have stored
    \* ---- The conversation handlers ----------------------------------------
    fpc,               \* the handler that waits for its repository call, "idle" if none
    nextStep,          \* the next-step handlers registered for the user's chat
    flast,             \* what the handler that ran last displayed
    inOrder,           \* the values submitted since the profile flow began, if in order
    convo,             \* the conversation the user has had with the bot, "" if none yet
    fdup               \* the handler of a save event that was delivered twice

storeVars == <<states, state_timestamps, heap, smLock, spc, sloc, now, calls, lastSet, episode>>

repoVars == <<wfile, pfile, profiles, profilesTmp, repoLock, rpc, rloc, rcalls, crashed,
              rdone, wspec, pspec, history>>

flowVars == <<fpc, nextStep, flast, inOrder, convo, fdup>>

vars == <<storeVars, repoVars, flowVars>>

-----------------------------------------------------------------------------
(* Generic helpers: Python dict operations on TLA+ functions.              *)

\* d[k] = v  (insert or overwrite)
Put(d, k, v) == [x \in (DOMAIN d) \cup {k} |-> IF x = k THEN v ELSE d[x]]

\* A pop that removes nothing.
PopKeeps(d, k) == d

\* d.pop(k, None)
Pop(d, k) == [x \in (DOMAIN d) \ {k} |-> d[x]]

\* d.update(u): shallow merge, u's values win
Merge(d, u) == [x \in (DOMAIN d) \cup (DOMAIN u) |-> IF x \in DOMAIN u THEN u[x] ELSE d[x]]

EmptyDict == [x \in {} |-> 0]

\* Optional values: None is the empty tuple, a present value v is <<v>>.
None == <<>>
Some(v) == <<v>>

-----------------------------------------------------------------------------
(* UserStateManager                                                        *)

Threads == {"t1", "t2"}

\* User ids and state types are arbitrary strings (the transport supplies the
\* user id); these contain the separator the key is built with.
Users == {"a", "a:b"}
Flows == {"c", "b:c"}
Pairs == {<<"a", "c">>, <<"a", "b:c">>, <<"a:b", "c">>}

\* The keys and values of a conversation state.
FieldKeys == {"k1", "k2"}
\* The dicts callers pass to set_state and to update_state.
InputStates == {EmptyDict, [k \in {"k1"} |-> 1]}
Partials == {[k \in {"k1"} |-> 2], [k \in {"k2"} |-> 1]}

STATE_TIMEOUT == 30 * 60

\* The clock is read at multiples of the timeout: an entry written at one
\* tick is exactly STATE_TIMEOUT old at the next and older at the one after.
MaxTicks == 2
TickSeconds == STATE_TIMEOUT
MaxTime == MaxTicks * TickSeconds

\* Handlers make at most MaxCalls calls in one run of the model.
MaxCalls == 3

\* key = f"{user_id}:{state_type}"
Key(user_id, state_type) == user_id \o ":" \o state_type

\* key.startswith(prefix)
StartsWith(key, prefix) ==
    /\ Len(key) >= Len(prefix)
    /\ SubSeq(key, 1, Len(prefix)) = prefix

AllKeys == {Key(p[1], p[2]) : p \in Pairs}
ObjIds == 1 .. (Cardinality(AllKeys) + Cardinality(Threads) + 1)

\* References held by the store or by a thread's local variable
\* (everything else is garbage and is dropped from the heap).
Referenced(st, lc) ==
    ({st[k] : k \in DOMAIN st} \cup {lc[t].cur : t \in Threads}) \ {0}

Collect(h, st, lc) == [o \in (DOMAIN h) \cap Referenced(st, lc) |-> h[o]]

\* A new dict object: the least reference not in use.
Fresh == CHOOSE o \in ObjIds : /\ o \notin Referenced(states, sloc)
                               /\ \A p \in ObjIds : p < o => p \in Referenced(states, sloc)

\* A handler thread that is in no call makes its next call.
StartsCall(t) ==
    /\ spc[t] = "idle"
    /\ calls < MaxCalls
    /\ calls' = calls + 1

IdleLocals == [user |-> "", flow |-> "", arg |-> EmptyDict, cur |-> 0]

\* `with self._lock:` can be entered (threading.Lock is not reentrant: the
\* holder itself cannot enter again).
LockFree(t) == smLock = ""

\* state_manager.py:27-29: the entry has a timestamp and it is too old
ExpiredAtOrAfter(user_id, state_type) ==
    /\ user_id \in DOMAIN state_timestamps
    /\ state_type \in DOMAIN state_timestamps[user_id]
    /\ now - state_timestamps[user_id][state_type] >= STATE_TIMEOUT
Expired(user_id, state_type) ==
    /\ user_id \in DOMAIN state_timestamps
    /\ state_type \in DOMAIN state_timestamps[user_id]
    /\ now - state_timestamps[user_id][state_type] > STATE_TIMEOUT

\* self._states.get(key): the reference stored, 0 for None
StatesGet(key) == IF key \in DOMAIN states THEN states[key] ELSE 0

\* What get_state(user_id, state_type) returns when called in this state and
\* allowed to complete: None, or the content of the stored dict.
GetView(user_id, state_type) ==
    IF Expired(user_id, state_type) \/ StatesGet(Key(user_id, state_type)) = 0
    THEN None
    ELSE Some(heap[StatesGet(Key(user_id, state_type))])

\* The content stored for the pair, whatever its age.
StoredView(user_id, state_type) ==
    IF StatesGet(Key(user_id, state_type)) = 0
    THEN None
    ELSE Some(heap[StatesGet(Key(user_id, state_type))])

NoSet == [op |-> "none", user |-> "", flow |-> "", val |-> EmptyDict, at |-> 0,
          over |-> FALSE]
\* `over`: the call replaced a stored state that had a key the new one lacks.
SetCall(user_id, state_type, state) ==
    [op |-> "set", user |-> user_id, flow |-> state_type, val |-> state, at |-> now,
     over |-> /\ StoredView(user_id, state_type) # None
              /\ \E k \in DOMAIN StoredView(user_id, state_type)[1] : k \notin DOMAIN state]

\* clear_state(user_id, state_type), called by a handler; `over`: the pair had
\* a state or a timestamp.
ClearCall(user_id, state_type) ==
    [op |-> "clear", user |-> user_id, flow |-> state_type, val |-> EmptyDict, at |-> now,
     over |-> \/ Key(user_id, state_type) \in DOMAIN states
              \/ /\ user_id \in DOMAIN state_timestamps
                 /\ state_type \in DOMAIN state_timestamps[user_id]]

NoEpisode == [pair |-> <<>>, base |-> None, parts |-> <<>>, active |-> 0, void |-> FALSE,
              at |-> 0]

\* An update_state call on the pair starts: it joins the update_state calls in
\* flight on the same pair, or opens a new episode.
EpisodeJoin(user_id, state_type, updates) ==
    IF episode.active = 0
    THEN [pair |-> <<user_id, state_type>>, base |-> StoredView(user_id, state_type),
          parts |-> <<updates>>, active |-> 1, void |-> FALSE, at |-> 0]
    ELSE [episode EXCEPT !.parts = Append(@, updates), !.active = @ + 1,
                         !.void = @ \/ episode.pair # <<user_id, state_type>>]

\* An update_state call on the pair starts by evicting the expired entry: what
\* it merges into is nothing.
EpisodeJoinEvicted(user_id, state_type, updates) ==
    IF episode.active = 0
    THEN [EpisodeJoin(user_id, state_type, updates) EXCEPT !.base = None]
    ELSE EpisodeJoin(user_id, state_type, updates)

\* An update_state call returns, at the current time.
EpisodeLeave ==
    IF episode.active = 1 /\ episode.void THEN NoEpisode
    ELSE [episode EXCEPT !.active = @ - 1, !.at = now]

\* Another writer acts: it is not part of an episode of update_state calls.
EpisodeOther ==
    IF episode.active = 0 THEN NoEpisode ELSE [episode EXCEPT !.void = TRUE]

StoreInit ==
    /\ states = EmptyDict
    /\ state_timestamps = EmptyDict
    /\ heap = EmptyDict
    /\ smLock = ""
    /\ spc = [t \in Threads |-> "idle"]
    /\ sloc = [t \in Threads |-> IdleLocals]
    /\ now = 0
    /\ calls = 0
    /\ lastSet = NoSet
    /\ episode = NoEpisode

\* state_manager.py:22-32 up to the call of _clear_state. The thread enters
\* `with self._lock`; if the entry is expired it goes on, still holding the
\* lock, to call _clear_state; otherwise it returns self._states.get(key).
\* `upd` is None for a plain get_state, and the updates of the update_state
\* call that makes this call (line 46).
GetStateBody(t, user_id, state_type, upd) ==
    /\ StartsCall(t)
    /\ LockFree(t)
    /\ IF Expired(user_id, state_type)
       THEN /\ smLock' = t
            /\ spc' = [spc EXCEPT ![t] = IF upd = None THEN "get_evict" ELSE "upd_evict"]
            /\ sloc' = [sloc EXCEPT ![t] = [user |-> user_id, flow |-> state_type,
                                            arg |-> IF upd = None THEN EmptyDict ELSE upd[1],
                                            cur |-> 0]]
            /\ UNCHANGED <<heap, episode, lastSet>>
       ELSE /\ smLock' = smLock
            /\ IF upd = None
               THEN /\ spc' = spc
                    /\ sloc' = sloc
                    /\ UNCHANGED <<heap, episode, lastSet>>
               ELSE /\ spc' = [spc EXCEPT ![t] = "upd_merge"]
                    /\ sloc' = [sloc EXCEPT ![t] = [user |-> user_id, flow |-> state_type,
                                                    arg |-> upd[1],
                                                    cur |-> StatesGet(Key(user_id, state_type))]]
                    /\ lastSet' = lastSet
                    /\ episode' = EpisodeJoin(user_id, state_type, upd[1])
                    /\ heap' = heap
    /\ UNCHANGED <<states, state_timestamps, now, repoVars, flowVars>>

\* get_state(user_id, state_type), called by a handler
GetState(t) ==
    \E p \in Pairs : GetStateBody(t, p[1], p[2], None)

\* update_state, line 46: current_state = self.get_state(user_id, state_type)
UpdateStateGet(t) ==
    \E p \in Pairs, updates \in Partials : GetStateBody(t, p[1], p[2], Some(updates))

\* update_state, lines 46-47: `... or {}` makes a new dict when get_state
\* returned None or an empty dict; current_state.update(updates) then changes
\* the dict in place, which is the stored dict itself when get_state returned it.
UpdateStateMerge(t) ==
    /\ spc[t] = "upd_merge"
    /\ LET ref == sloc[t].cur
           falsy == ref = 0 \/ heap[ref] = EmptyDict
           target == IF falsy THEN Fresh ELSE ref
           old == IF falsy THEN EmptyDict ELSE heap[ref]
           lc == [sloc EXCEPT ![t].cur = target]
       IN /\ sloc' = lc
          /\ heap' = Collect(Put(heap, target, Merge(old, sloc[t].arg)), states, lc)
    /\ spc' = [spc EXCEPT ![t] = "upd_set"]
    /\ lastSet' = NoSet
    /\ UNCHANGED <<states, state_timestamps, smLock, now, calls, episode, repoVars, flowVars>>

\* state_manager.py:34-42, the section under the lock: the dict `ref` is stored
\* under the key and the timestamp of the pair is set to the current time.
SetStateBody(t, user_id, state_type, ref, h, lc) ==
    /\ LockFree(t)
    /\ LET st == Put(states, Key(user_id, state_type), ref)
       IN /\ states' = st
          /\ heap' = Collect(h, st, lc)
    /\ state_timestamps' =
          Put(state_timestamps, user_id,
              Put(IF user_id \in DOMAIN state_timestamps
                  THEN state_timestamps[user_id] ELSE EmptyDict,
                  state_type, now))
    /\ sloc' = lc
    /\ UNCHANGED <<smLock, now, repoVars, flowVars>>

\* set_state(user_id, state_type, state), called by a handler with a dict it
\* has just built
SetState(t) ==
    /\ StartsCall(t)
    /\ \E p \in Pairs, state \in InputStates :
          /\ SetStateBody(t, p[1], p[2], Fresh, Put(heap, Fresh, state), sloc)
          /\ lastSet' = SetCall(p[1], p[2], state)
    /\ episode' = EpisodeOther
    /\ UNCHANGED spc

\* update_state, line 48: self.set_state(user_id, state_type, current_state)
UpdateStateSet(t) ==
    /\ spc[t] = "upd_set"
    /\ calls' = calls
    /\ SetStateBody(t, sloc[t].user, sloc[t].flow, sloc[t].cur, heap,
                    [sloc EXCEPT ![t] = IdleLocals])
    /\ spc' = [spc EXCEPT ![t] = "idle"]
    /\ lastSet' = NoSet
    /\ episode' = EpisodeLeave

\* state_manager.py:54-61, _clear_state: entered from clear_state (line 52) by
\* a handler, or from get_state (line 30) by a thread that found the entry
\* expired and still holds the lock. After it, get_state returns None (line 31)
\* and an update_state that called get_state goes on with `None or {}`.
ClearStateOn(t, p) ==
    /\ spc[t] \in {"idle", "get_evict", "upd_evict"}
    /\ IF spc[t] = "idle" THEN StartsCall(t) ELSE calls' = calls
    /\ LockFree(t)
    /\ spc[t] # "idle" => p = <<sloc[t].user, sloc[t].flow>>
    /\ LET st == Pop(states, Key(p[1], p[2]))
           lc == IF spc[t] = "upd_evict" THEN sloc
                 ELSE [sloc EXCEPT ![t] = IdleLocals]
       IN /\ states' = st
          /\ heap' = Collect(heap, st, lc)
          /\ sloc' = lc
    /\ state_timestamps' =
          IF p[1] \in DOMAIN state_timestamps
          THEN [state_timestamps EXCEPT ![p[1]] = Pop(@, p[2])]
          ELSE state_timestamps
    /\ lastSet' = IF spc[t] = "idle" THEN ClearCall(p[1], p[2]) ELSE NoSet
    /\ spc' = [spc EXCEPT ![t] = IF spc[t] = "upd_evict" THEN "upd_merge" ELSE "idle"]
    /\ smLock' = ""
    /\ episode' = IF spc[t] = "upd_evict"
                  THEN EpisodeJoinEvicted(sloc[t].user, sloc[t].flow, sloc[t].arg)
                  ELSE EpisodeOther
    /\ UNCHANGED <<now, repoVars, flowVars>>

ClearState(t) == \E p \in Pairs : ClearStateOn(t, p)

\* state_manager.py:67-74
ClearAllStatesOf(t, user_id) ==
    /\ StartsCall(t)
    /\ LockFree(t)
    /\ LET keys_to_remove == {k \in DOMAIN states : StartsWith(k, user_id \o ":")}
           st == [k \in (DOMAIN states) \ keys_to_remove |-> states[k]]
       IN /\ states' = st
          /\ heap' = Collect(heap, st, sloc)
    /\ state_timestamps' = Pop(state_timestamps, user_id)
    /\ lastSet' = NoSet
    /\ episode' = EpisodeOther
    /\ UNCHANGED <<smLock, spc, sloc, now, repoVars, flowVars>>

ClearAllStates(t) == \E user_id \in Users : ClearAllStatesOf(t, user_id)

\* time.time() advances. The clock is only ever compared with a stored
\* timestamp, so its advance is followed from the first write on.
Tick ==
    /\ DOMAIN state_timestamps # {}
    /\ now + TickSeconds <= MaxTime
    /\ now' = now + TickSeconds
    /\ UNCHANGED <<states, state_timestamps, heap, smLock, spc, sloc, calls, lastSet, episode,
                   repoVars, flowVars>>

StoreStep(t) ==
    \/ GetState(t)
    \/ SetState(t)
    \/ UpdateStateGet(t)
    \/ UpdateStateMerge(t)
    \/ UpdateStateSet(t)
    \/ ClearState(t)
    \/ ClearAllStates(t)

StoreNext == Tick \/ \E t \in Threads : StoreStep(t)

-----------------------------------------------------------------------------
(* FileStorageRepository: the data                                         *)

RepoUsers == {"u1"}

\* pathlib's `directory / name`: the components "." of the name are dropped
\* (of the user ids here a name can begin with "./").
RECURSIVE JoinPath(_)
JoinPath(name) ==
    IF StartsWith(name, "./") THEN JoinPath(SubSeq(name, 3, Len(name))) ELSE name

\* file_storage.py:97-98, 288-289: the workouts file and the progress file of
\* a user, f"{user_id}.json" in their directories; a file is named here by its
\* path below the directory, without ".json".
WorkoutPath(user_id) == JoinPath(user_id)
ProgressPath(user_id) == JoinPath(user_id)
EntryIds == {"e1", "e2"}
PlanIds == {"p1", "p2"}

\* A WorkoutEntry as a caller builds it (models.py:24-36): completion_count 0,
\* last_completed None.
NewEntry(id, day) ==
    [entry_id |-> id, day_of_week |-> day, completion_count |-> 0, last_completed |-> None]

InputEntries == {NewEntry("e1", "mon"), NewEntry("e1", "tue"), NewEntry("e2", "mon")}

\* A WorkoutPlan as a caller builds it: the constructor runs ensure_entries
\* (models.py:48-52), so a plan passed to the repository has an entry.
MaxPlanEntries == 1
InputPlans ==
    {[plan_id |-> p, entries |-> es] :
        p \in PlanIds,
        es \in UNION {[1 .. n -> InputEntries] : n \in 1 .. MaxPlanEntries}}

\* A WorkoutExecution (models.py:104-110)
ExecutionDates == {1, 2}
InputExecutions ==
    {[workout_entry_id |-> e, execution_date |-> d] : e \in EntryIds, d \in ExecutionDates}

\* A ProgressEntry (models.py:84-89) as a caller builds it, and an item of a
\* bare-array progress file: it was written when ProgressEntry still had the
\* field completed_workouts.
InputProgressEntries == {[weight |-> 70]}
LegacyProgressItem == [weight |-> 68, completed_workouts |-> 2]

\* ProgressEntry.parse_obj(item).dict(): pydantic keeps the fields of the model
\* and ignores the other keys of the item.
ParseProgressEntry(item) == [weight |-> item.weight]

\* A Python float: a number, or the value nan, which no comparison holds for.
Float(v) == [kind |-> "float", val |-> v]
NaN == [kind |-> "nan", val |-> 0]
FloatLt(x, n) == x.kind = "float" /\ x.val < n
FloatLe(x, n) == x.kind = "float" /\ x.val <= n
FloatGt(x, n) == x.kind = "float" /\ x.val > n

\* A UserProfile (models.py:60-69); updated_at is the time of construction.
NewProfile(user_id, age, weight, gender) ==
    [user_id |-> user_id, age |-> age, gender |-> gender, weight |-> weight,
     goal |-> "lose", experience |-> "beginner", preferred_location |-> "home",
     workout_time |-> "short", updated_at |-> 1]

InputProfiles == {NewProfile(u, a, Float(70), "male") : u \in RepoUsers, a \in {28, 35}}

\* profile.dict() as json.dump writes it: default=str turns the datetime into
\* its string.
DumpProfile(profile) == [profile EXCEPT !.updated_at = <<"str", @>>]

\* UserProfile.parse_obj(raw) (models.py:60-81): the validators refuse an age
\* or a weight that is not positive, and the datetime is parsed from its string.
ParseProfile(raw) ==
    IF raw.age <= 0 \/ FloatLe(raw.weight, 0)
    THEN [err |-> "ValidationError", val |-> None]
    ELSE [err |-> "", val |-> Some([raw EXCEPT !.updated_at = @[2]])]

\* A save that keeps the profile the user already has.
StoreProfileIfNew(data, profile) ==
    IF profile.user_id \in DOMAIN data THEN data
    ELSE Put(data, profile.user_id, DumpProfile(profile))

\* file_storage.py:92: data[profile.user_id] = profile.dict()
StoreProfile(data, profile) == Put(data, profile.user_id, DumpProfile(profile))

\* Callers make at most MaxRepoCalls repository calls in one run of the model.
MaxRepoCalls == 3

\* The content of a workouts file: it does not exist, it has been opened for
\* writing and not yet written in full, or it holds the serialized data.
AbsentFile == [shape |-> "absent", plans |-> <<>>, standalone_workouts |-> <<>>]
PartialFile == [shape |-> "partial", plans |-> <<>>, standalone_workouts |-> <<>>]
WorkoutsFile(data) ==
    [shape |-> "json", plans |-> data.plans, standalone_workouts |-> data.standalone_workouts]
\* A file an earlier version wrote: a bare array, the list of plans.
LegacyFile(plans) == [shape |-> "legacy", plans |-> plans, standalone_workouts |-> <<>>]

\* The same for a progress file; the bare array of an earlier version is the
\* list of body-progress entries.
AbsentProgress == [shape |-> "absent", body_progress |-> <<>>, workout_executions |-> <<>>]
PartialProgress == [shape |-> "partial", body_progress |-> <<>>, workout_executions |-> <<>>]
ProgressFile(data) ==
    [shape |-> "json", body_progress |-> data.body_progress,
     workout_executions |-> data.workout_executions]
LegacyProgress(body_progress) ==
    [shape |-> "legacy", body_progress |-> body_progress, workout_executions |-> <<>>]

\* What the data directory can hold when the repository is constructed:
\* nothing for the user, or the bare-array files of an earlier version.
InitialWorkouts ==
    {AbsentFile, LegacyFile(<<[plan_id |-> "p1", entries |-> <<NewEntry("e1", "mon")>>]>>)}
InitialProgress == {AbsentProgress, LegacyProgress(<<LegacyProgressItem>>)}

\* The same for users.json and users.tmp.
AbsentJson == [shape |-> "absent", data |-> EmptyDict]
PartialJson == [shape |-> "partial", data |-> EmptyDict]
JsonFile(data) == [shape |-> "json", data |-> data]

\* The first of the indices that match, 0 when there is none
\* (`for i, x in enumerate(seq): if ...: break`).
FirstIndex(matching) ==
    IF matching = {} THEN 0
    ELSE CHOOSE i \in matching : \A j \in matching : i <= j

\* A load that knows the modern shape only: a bare array has no "plans" key.
LoadModernOnly(f) ==
    IF f.shape = "partial"
    THEN [err |-> "JSONDecodeError", plans |-> <<>>, standalone_workouts |-> <<>>]
    ELSE IF f.shape = "legacy"
    THEN [err |-> "", plans |-> <<>>, standalone_workouts |-> <<>>]
    ELSE [err |-> "", plans |-> f.plans, standalone_workouts |-> f.standalone_workouts]

\* file_storage.py:100-117. json.load raises JSONDecodeError on a file that
\* was not written in full; nothing catches it. No file gives two empty lists,
\* a bare array (isinstance(raw, list)) is the plans with no standalone entry,
\* a dict gives its two lists.
LoadWorkoutData(f) ==
    IF f.shape = "partial"
    THEN [err |-> "JSONDecodeError", plans |-> <<>>, standalone_workouts |-> <<>>]
    ELSE IF f.shape = "absent"
    THEN [err |-> "", plans |-> <<>>, standalone_workouts |-> <<>>]
    ELSE IF f.shape = "legacy"
    THEN [err |-> "", plans |-> f.plans, standalone_workouts |-> <<>>]
    ELSE [err |-> "", plans |-> f.plans, standalone_workouts |-> f.standalone_workouts]

\* file_storage.py:291-308: the same, a bare array being the body progress
LoadProgressData(f) ==
    IF f.shape = "partial"
    THEN [err |-> "JSONDecodeError", body_progress |-> <<>>, workout_executions |-> <<>>]
    ELSE IF f.shape = "absent"
    THEN [err |-> "", body_progress |-> <<>>, workout_executions |-> <<>>]
    ELSE IF f.shape = "legacy"
    THEN [err |-> "", body_progress |-> f.body_progress, workout_executions |-> <<>>]
    ELSE [err |-> "", body_progress |-> f.body_progress,
          workout_executions |-> f.workout_executions]

\* file_storage.py:51-63
ReadJson(f) ==
    IF f.shape = "partial"
    THEN [err |-> "StorageError", data |-> EmptyDict]
    ELSE [err |-> "", data |-> f.data]

\* file_storage.py:74-85: the profiles are read without the lock; a user that
\* has no item, or an empty one, has no profile.
GetProfile(f, user_id) ==
    LET d == ReadJson(f)
    IN IF d.err # "" THEN [err |-> d.err, val |-> None]
       ELSE IF user_id \notin DOMAIN d.data THEN [err |-> "", val |-> None]
       ELSE ParseProfile(d.data[user_id])

\* [WorkoutPlan.parse_obj(item) for item in data["plans"]]: ensure_entries
\* (models.py:48-52) rejects a stored plan that has no entry.
ParsePlansFails(plans) == \E i \in DOMAIN plans : plans[i].entries = <<>>

\* What a repository call computes from the file it loaded: the exception it
\* raises ("" for none), the data it goes on to save, and whether the id it
\* looked for was there.
Res(err, plans, standalone_workouts, hit) ==
    [err |-> err, hit |-> hit,
     data |-> [plans |-> plans, standalone_workouts |-> standalone_workouts]]

Raises(err) == Res(err, <<>>, <<>>, FALSE)

RECURSIVE PlanEntries(_)
\* the entries of all plans, in storage order
PlanEntries(plans) ==
    IF plans = <<>> THEN <<>> ELSE Head(plans).entries \o PlanEntries(Tail(plans))

\* file_storage.py:152-167: the plans are loaded and parsed, their entries
\* searched in order, then the standalone list.
GetWorkoutEntry(f, entry_id) ==
    LET d == LoadWorkoutData(f)
        Matching(seq) == {i \in DOMAIN seq : seq[i].entry_id = entry_id}
        inPlans == FirstIndex(Matching(PlanEntries(d.plans)))
        inStandalone == FirstIndex(Matching(d.standalone_workouts))
    IN IF d.err # "" THEN [err |-> d.err, val |-> None]
       ELSE IF ParsePlansFails(d.plans) THEN [err |-> "ValidationError", val |-> None]
       ELSE IF inPlans # 0 THEN [err |-> "", val |-> Some(PlanEntries(d.plans)[inPlans])]
       ELSE IF inStandalone # 0
            THEN [err |-> "", val |-> Some(d.standalone_workouts[inStandalone])]
       ELSE [err |-> "", val |-> None]

\* file_storage.py:188-201: the plans are loaded and parsed and their entries
\* collected in order, then the standalone entries are added.
GetAllWorkoutEntries(f) ==
    LET d == LoadWorkoutData(f)
    IN IF d.err # "" THEN [err |-> d.err, val |-> <<>>]
       ELSE IF ParsePlansFails(d.plans) THEN [err |-> "ValidationError", val |-> <<>>]
       ELSE [err |-> "", val |-> PlanEntries(d.plans) \o d.standalone_workouts]

\* file_storage.py:169-186: the same with the entries of one day only
GetWorkoutEntriesByDay(f, day) ==
    LET d == LoadWorkoutData(f)
        OnDay(e) == e.day_of_week = day
    IN IF d.err # "" THEN [err |-> d.err, val |-> <<>>]
       ELSE IF ParsePlansFails(d.plans) THEN [err |-> "ValidationError", val |-> <<>>]
       ELSE [err |-> "", val |-> SelectSeq(PlanEntries(d.plans), OnDay)
                                    \o SelectSeq(d.standalone_workouts, OnDay)]

RECURSIVE SelectedWorkouts(_, _)
\* plan_creation.py:24-29: the entries found for the selected ids, in the
\* order of the selection; an id that has no entry is skipped.
SelectedWorkouts(f, ids) ==
    IF ids = <<>> THEN <<>>
    ELSE LET workout == GetWorkoutEntry(f, Head(ids))
         IN (IF workout.val = None THEN <<>> ELSE <<workout.val[1]>>)
                \o SelectedWorkouts(f, Tail(ids))

\* file_storage.py:127-142
SaveWorkoutPlanRes(f, plan) ==
    LET d == LoadWorkoutData(f)
        existing_index == FirstIndex({i \in DOMAIN d.plans : d.plans[i].plan_id = plan.plan_id})
    IN IF d.err # "" THEN Raises(d.err)
       ELSE IF ParsePlansFails(d.plans) THEN Raises("ValidationError")
       ELSE Res("", IF existing_index # 0
                    THEN [d.plans EXCEPT ![existing_index] = plan]
                    ELSE Append(d.plans, plan),
                d.standalone_workouts, existing_index # 0)

\* A save that appends without looking for the id.
SaveStandaloneAppends(f, workout) ==
    LET d == LoadWorkoutData(f)
    IN IF d.err # "" THEN Raises(d.err)
       ELSE Res("", d.plans, Append(d.standalone_workouts, workout), FALSE)

\* file_storage.py:269-284
SaveStandaloneWorkoutRes(f, workout) ==
    LET d == LoadWorkoutData(f)
        existing_index == FirstIndex({i \in DOMAIN d.standalone_workouts :
                                         d.standalone_workouts[i].entry_id = workout.entry_id})
    IN IF d.err # "" THEN Raises(d.err)
       ELSE Res("", d.plans,
                IF existing_index # 0
                THEN [d.standalone_workouts EXCEPT ![existing_index] = workout]
                ELSE Append(d.standalone_workouts, workout),
                existing_index # 0)

\* file_storage.py:206-227
UpdateWorkoutEntryRes(f, entry_id, entry) ==
    LET d == LoadWorkoutData(f)
        Matching(seq) == {i \in DOMAIN seq : seq[i].entry_id = entry_id}
        plan == FirstIndex({p \in DOMAIN d.plans : Matching(d.plans[p].entries) # {}})
        i == FirstIndex(Matching(d.plans[plan].entries))
        w == FirstIndex(Matching(d.standalone_workouts))
    IN IF d.err # "" THEN Raises(d.err)
       ELSE IF ParsePlansFails(d.plans) THEN Raises("ValidationError")
       ELSE IF plan # 0
            THEN Res("", [d.plans EXCEPT ![plan].entries[i] = entry],
                     d.standalone_workouts, TRUE)
       ELSE IF w # 0
            THEN Res("", d.plans, [d.standalone_workouts EXCEPT ![w] = entry], TRUE)
       ELSE Raises("StorageError")

\* file_storage.py:232-243: the assignment plan.entries = [...] is not
\* validated, so a plan can be saved with no entry left.
DeleteWorkoutEntryRes(f, entry_id) ==
    LET d == LoadWorkoutData(f)
        Keep(e) == e.entry_id # entry_id
    IN IF d.err # "" THEN Raises(d.err)
       ELSE IF ParsePlansFails(d.plans) THEN Raises("ValidationError")
       ELSE Res("", [p \in DOMAIN d.plans |->
                        [d.plans[p] EXCEPT !.entries = SelectSeq(@, Keep)]],
                SelectSeq(d.standalone_workouts, Keep),
                \/ \E p \in DOMAIN d.plans : \E i \in DOMAIN d.plans[p].entries :
                      d.plans[p].entries[i].entry_id = entry_id
                \/ \E i \in DOMAIN d.standalone_workouts :
                      d.standalone_workouts[i].entry_id = entry_id)

\* file_storage.py:339-341: the entry found, with its statistics advanced
Completed(workout, execution) ==
    [workout EXCEPT !.completion_count = @ + 1, !.last_completed = Some(execution.execution_date)]

-----------------------------------------------------------------------------
(* FileStorageRepository: the calls                                        *)

\* A repository without its lock.
NoRepoLock(t) == TRUE

\* `with self._lock:` can be entered (threading.Lock is not reentrant).
RepoLockFree(t) == repoLock = ""

\* A caller thread that is in no repository call makes its next call.
StartsRepoCall(t) ==
    /\ rpc[t] = "idle"
    /\ rcalls < MaxRepoCalls
    /\ rcalls' = rcalls + 1

NoArg == <<>>
IdleRepoLocals ==
    [op |-> "", user |-> "", id |-> "", arg |-> NoArg, pre |-> AbsentFile,
     ppre |-> AbsentProgress, buf |-> NoArg, hit |-> FALSE]

\* No call has returned since the last one began; `by` is the thread whose
\* call returned last.
NoDone(by) ==
    [op |-> "none", result |-> "", by |-> by, user |-> "", id |-> "", arg |-> NoArg,
     pre |-> AbsentFile, ppre |-> AbsentProgress, hit |-> FALSE, after |-> ""]

\* The call `op` of thread t returns ("ok") or raises; `pre` and `ppre` are the
\* workouts file and the progress file of the user when the call began.
Done(t, op, result, user_id, id, arg, pre, hit) ==
    [op |-> op, result |-> result, by |-> t, user |-> user_id, id |-> id, arg |-> arg,
     pre |-> pre, ppre |-> IF rpc[t] = "idle" THEN pfile[ProgressPath(user_id)] ELSE rloc[t].ppre,
     hit |-> hit, after |-> rdone.by]

\* The workouts data of the user had the call run in one step.
SpecApply(user_id, sres) ==
    IF sres.err # "" THEN wspec
    ELSE [wspec EXCEPT ![WorkoutPath(user_id)] = WorkoutsFile(sres.data)]

\* For a call whose effect the one-step data already holds.
AlreadyApplied == Raises("applied")

RepoInit ==
    /\ wfile \in [RepoUsers -> InitialWorkouts]
    /\ pfile \in [RepoUsers -> InitialProgress]
    /\ profiles = JsonFile(EmptyDict)
    /\ profilesTmp = AbsentJson
    /\ repoLock = ""
    /\ rpc = [t \in Threads |-> "idle"]
    /\ rloc = [t \in Threads |-> IdleRepoLocals]
    /\ rcalls = 0
    /\ crashed = FALSE
    /\ rdone = NoDone("")
    /\ wspec = wfile
    /\ pspec = pfile
    /\ history = [u \in RepoUsers |-> <<>>]

\* The section of a workouts write call from `with self._lock` up to and
\* including path.open("w") in _save_workout_data (line 122), which empties
\* the file. `res` is what the call computed from the file; if it raised, the
\* call ends here with the file as it was. `op` names the call that returns
\* when the write is done.
WorkoutsCallBegins(t, user_id, op, id, arg, res, sres) ==
    /\ RepoLockFree(t)
    /\ wspec' = SpecApply(user_id, sres)
    /\ IF res.err # ""
       THEN /\ rdone' = Done(t, op, res.err, user_id, id, arg, wfile[WorkoutPath(user_id)], res.hit)
            /\ rpc' = [rpc EXCEPT ![t] = "idle"]
            /\ rloc' = [rloc EXCEPT ![t] = IdleRepoLocals]
            /\ repoLock' = ""
            /\ wfile' = wfile
       ELSE /\ wfile' = [wfile EXCEPT ![WorkoutPath(user_id)] = PartialFile]
            /\ rloc' = [rloc EXCEPT ![t] =
                           [op |-> op, user |-> user_id, id |-> id, arg |-> arg,
                            pre |-> wfile[WorkoutPath(user_id)],
                            ppre |-> IF rpc[t] = "idle" THEN pfile[ProgressPath(user_id)]
                                     ELSE rloc[t].ppre,
                            buf |-> WorkoutsFile(res.data),
                            hit |-> res.hit]]
            /\ rpc' = [rpc EXCEPT ![t] = "save_workout_data"]
            /\ repoLock' = t
            /\ rdone' = NoDone(rdone.by)
    /\ UNCHANGED <<pfile, profiles, profilesTmp, crashed, pspec, history, storeVars>>

\* file_storage.py:125-143, up to the opening of the file
SaveWorkoutPlanOf(t, user_id, plan) ==
    /\ StartsRepoCall(t)
    /\ WorkoutsCallBegins(t, user_id, "save_workout_plan", plan.plan_id, plan,
                          SaveWorkoutPlanRes(wfile[WorkoutPath(user_id)], plan),
                          SaveWorkoutPlanRes(wspec[WorkoutPath(user_id)], plan))
    /\ UNCHANGED flowVars

SaveWorkoutPlan(t) ==
    \E user_id \in RepoUsers, plan \in InputPlans : SaveWorkoutPlanOf(t, user_id, plan)

\* plan_creation.py:15-43: the selected entries are read with
\* get_workout_entry, put into a new plan (its plan_id is a new uuid), and the
\* plan is saved with save_workout_plan. The reads and the save are taken as
\* one step, at a moment when no write is in progress.
CreatePlanFromWorkouts(t) ==
    /\ StartsRepoCall(t)
    /\ \E user_id \in RepoUsers,
          ids \in UNION {[1 .. n -> EntryIds] : n \in 1 .. MaxPlanEntries} :
          LET f == wfile[WorkoutPath(user_id)]
              read == GetWorkoutEntry(f, ids[1])
              entries == SelectedWorkouts(f, ids)
              unused == PlanIds \ {f.plans[i].plan_id : i \in DOMAIN f.plans}
              plan == [plan_id |-> CHOOSE p \in unused : TRUE, entries |-> entries]
          IN /\ unused # {}
             /\ IF read.err # ""
                THEN WorkoutsCallBegins(t, user_id, "create_plan_from_workouts", "", NoArg,
                                        Raises(read.err), Raises(read.err))
                ELSE IF entries = <<>>
                THEN WorkoutsCallBegins(t, user_id, "create_plan_from_workouts", "", NoArg,
                                        Raises("ValueError"), Raises("ValueError"))
                ELSE WorkoutsCallBegins(t, user_id, "create_plan_from_workouts",
                                        plan.plan_id, plan,
                                        SaveWorkoutPlanRes(f, plan),
                                        SaveWorkoutPlanRes(wspec[WorkoutPath(user_id)], plan))
    /\ UNCHANGED flowVars

\* file_storage.py:266-285, up to the opening of the file
SaveStandaloneWorkoutOf(t, user_id, workout) ==
    /\ StartsRepoCall(t)
    /\ WorkoutsCallBegins(t, user_id, "save_standalone_workout", workout.entry_id, workout,
                          SaveStandaloneWorkoutRes(wfile[WorkoutPath(user_id)], workout),
                          SaveStandaloneWorkoutRes(wspec[WorkoutPath(user_id)], workout))
    /\ UNCHANGED flowVars

SaveStandaloneWorkout(t) ==
    \E user_id \in RepoUsers, workout \in InputEntries :
        SaveStandaloneWorkoutOf(t, user_id, workout)

\* file_storage.py:229-245, up to the opening of the file
DeleteWorkoutEntryOf(t, user_id, entry_id) ==
    /\ StartsRepoCall(t)
    /\ WorkoutsCallBegins(t, user_id, "delete_workout_entry", entry_id, NoArg,
                          DeleteWorkoutEntryRes(wfile[WorkoutPath(user_id)], entry_id),
                          DeleteWorkoutEntryRes(wspec[WorkoutPath(user_id)], entry_id))
    /\ UNCHANGED flowVars

DeleteWorkoutEntry(t) ==
    \E user_id \in RepoUsers, entry_id \in EntryIds :
        DeleteWorkoutEntryOf(t, user_id, entry_id)

\* file_storage.py:203-227, up to the opening of the file. The call comes from
\* a caller, with an entry that carries the id it replaces, or from
\* save_workout_execution (line 342), which still holds the lock.
UpdateWorkoutEntry(t) ==
    /\ rpc[t] \in {"idle", "update_stats"}
    /\ IF rpc[t] = "idle"
       THEN /\ StartsRepoCall(t)
            /\ \E user_id \in RepoUsers, entry \in InputEntries :
                  WorkoutsCallBegins(t, user_id, "update_workout_entry", entry.entry_id,
                                     entry,
                                     UpdateWorkoutEntryRes(wfile[WorkoutPath(user_id)], entry.entry_id,
                                                           entry),
                                     UpdateWorkoutEntryRes(wspec[WorkoutPath(user_id)], entry.entry_id,
                                                           entry))
       ELSE /\ rcalls' = rcalls
            /\ WorkoutsCallBegins(t, rloc[t].user, "save_workout_execution", rloc[t].id,
                                  rloc[t].arg,
                                  UpdateWorkoutEntryRes(wfile[WorkoutPath(rloc[t].user)], rloc[t].id,
                                                        rloc[t].buf),
                                  AlreadyApplied)
    /\ UNCHANGED flowVars

\* file_storage.py:122-123 after the opening: json.dump writes the data, the
\* file is closed, the `with self._lock` block is left and the call returns.
SaveWorkoutData(t) ==
    /\ rpc[t] = "save_workout_data"
    /\ wfile' = [wfile EXCEPT ![WorkoutPath(rloc[t].user)] = rloc[t].buf]
    /\ rdone' = Done(t, rloc[t].op, "ok", rloc[t].user, rloc[t].id, rloc[t].arg,
                     rloc[t].pre, rloc[t].hit)
    /\ rpc' = [rpc EXCEPT ![t] = "idle"]
    /\ rloc' = [rloc EXCEPT ![t] = IdleRepoLocals]
    /\ repoLock' = ""
    /\ UNCHANGED <<pfile, profiles, profilesTmp, rcalls, crashed, wspec, pspec, history, storeVars, flowVars>>

\* file_storage.py:328-335 up to the opening of the progress file: the
\* execution is appended to the history loaded from the file.
SaveWorkoutExecutionOf(t, user_id, execution) ==
    /\ StartsRepoCall(t)
    /\ RepoLockFree(t)
    /\ LET d == LoadProgressData(pfile[ProgressPath(user_id)])
           sd == LoadProgressData(pspec[ProgressPath(user_id)])
           found == GetWorkoutEntry(wspec[WorkoutPath(user_id)], execution.workout_entry_id)
       IN /\ pspec' = IF sd.err # "" THEN pspec
                      ELSE [pspec EXCEPT ![ProgressPath(user_id)] =
                               ProgressFile([sd EXCEPT !.workout_executions =
                                                Append(@, execution)])]
          /\ wspec' = IF sd.err = "" /\ found.err = "" /\ found.val # None
                      THEN SpecApply(user_id,
                               UpdateWorkoutEntryRes(wspec[WorkoutPath(user_id)],
                                   execution.workout_entry_id,
                                   Completed(found.val[1], execution)))
                      ELSE wspec
          /\ IF d.err # ""
             THEN /\ rdone' = Done(t, "save_workout_execution", d.err, user_id,
                                   execution.workout_entry_id, execution,
                                   wfile[WorkoutPath(user_id)], FALSE)
                  /\ UNCHANGED <<pfile, rpc, rloc, repoLock>>
             ELSE /\ pfile' = [pfile EXCEPT ![ProgressPath(user_id)] = PartialProgress]
                  /\ rloc' = [rloc EXCEPT ![t] =
                                 [op |-> "save_workout_execution", user |-> user_id,
                                  id |-> execution.workout_entry_id, arg |-> execution,
                                  pre |-> wfile[WorkoutPath(user_id)], ppre |-> pfile[ProgressPath(user_id)],
                                  buf |-> ProgressFile([d EXCEPT !.workout_executions =
                                                           Append(@, execution)]),
                                  hit |-> FALSE]]
                  /\ rpc' = [rpc EXCEPT ![t] = "save_progress_data"]
                  /\ repoLock' = t
                  /\ rdone' = NoDone(rdone.by)
    /\ UNCHANGED <<wfile, profiles, profilesTmp, crashed, history, storeVars, flowVars>>

SaveWorkoutExecution(t) ==
    \E user_id \in RepoUsers, execution \in InputExecutions :
        SaveWorkoutExecutionOf(t, user_id, execution)

\* file_storage.py:316-322 up to the opening of the progress file: the stored
\* body-progress items are parsed and the entry is appended to them.
AddProgressEntry(t) ==
    /\ StartsRepoCall(t)
    /\ RepoLockFree(t)
    /\ \E user_id \in RepoUsers, entry \in InputProgressEntries :
          LET d == LoadProgressData(pfile[ProgressPath(user_id)])
              sd == LoadProgressData(pspec[ProgressPath(user_id)])
              Added(body) == Append([i \in DOMAIN body |-> ParseProgressEntry(body[i])], entry)
          IN /\ pspec' = IF sd.err # "" THEN pspec
                         ELSE [pspec EXCEPT ![ProgressPath(user_id)] =
                                  ProgressFile([sd EXCEPT !.body_progress = Added(@)])]
             /\ IF d.err # ""
                THEN /\ rdone' = Done(t, "add_progress_entry", d.err, user_id, "", entry,
                                      wfile[WorkoutPath(user_id)], FALSE)
                     /\ UNCHANGED <<pfile, rpc, rloc, repoLock>>
                ELSE /\ pfile' = [pfile EXCEPT ![ProgressPath(user_id)] = PartialProgress]
                     /\ rloc' = [rloc EXCEPT ![t] =
                                    [op |-> "add_progress_entry", user |-> user_id,
                                     id |-> "", arg |-> entry,
                                     pre |-> wfile[WorkoutPath(user_id)], ppre |-> pfile[ProgressPath(user_id)],
                                     buf |-> ProgressFile([d EXCEPT !.body_progress =
                                                              Added(@)]),
                                     hit |-> FALSE]]
                     /\ rpc' = [rpc EXCEPT ![t] = "save_progress_data"]
                     /\ repoLock' = t
                     /\ rdone' = NoDone(rdone.by)
    /\ UNCHANGED <<wfile, profiles, profilesTmp, crashed, wspec, history, storeVars, flowVars>>

\* file_storage.py:313-314 after the opening: json.dump writes the data and
\* the file is closed. add_progress_entry leaves the lock and returns;
\* save_workout_execution goes on, holding the lock.
SaveProgressData(t) ==
    /\ rpc[t] = "save_progress_data"
    /\ pfile' = [pfile EXCEPT ![ProgressPath(rloc[t].user)] = rloc[t].buf]
    /\ IF rloc[t].op = "add_progress_entry"
       THEN /\ rpc' = [rpc EXCEPT ![t] = "idle"]
            /\ rloc' = [rloc EXCEPT ![t] = IdleRepoLocals]
            /\ repoLock' = ""
            /\ rdone' = Done(t, rloc[t].op, "ok", rloc[t].user, rloc[t].id, rloc[t].arg,
                             rloc[t].pre, rloc[t].hit)
            /\ history' = history
       ELSE /\ rpc' = [rpc EXCEPT ![t] = "get_workout_entry"]
            /\ rloc' = [rloc EXCEPT ![t].buf = NoArg]
            /\ history' = [history EXCEPT ![ProgressPath(rloc[t].user)] = Append(@, rloc[t].arg)]
            /\ UNCHANGED <<repoLock, rdone>>
    /\ UNCHANGED <<wfile, profiles, profilesTmp, rcalls, crashed, wspec, pspec, storeVars, flowVars>>

\* file_storage.py:338-341: the referenced entry is looked up; if there is
\* none the call returns, otherwise its statistics are advanced and
\* update_workout_entry is about to be called.
SaveWorkoutExecutionStats(t) ==
    /\ rpc[t] = "get_workout_entry"
    /\ LET workout == GetWorkoutEntry(wfile[WorkoutPath(rloc[t].user)], rloc[t].id)
       IN IF workout.err = "" /\ workout.val # None
          THEN /\ rpc' = [rpc EXCEPT ![t] = "update_stats"]
               /\ rloc' = [rloc EXCEPT ![t].buf = Completed(workout.val[1], rloc[t].arg),
                                       ![t].hit = TRUE]
               /\ UNCHANGED <<repoLock, rdone>>
          ELSE /\ rpc' = [rpc EXCEPT ![t] = "idle"]
               /\ rloc' = [rloc EXCEPT ![t] = IdleRepoLocals]
               /\ repoLock' = ""
               /\ rdone' = Done(t, "save_workout_execution",
                                IF workout.err = "" THEN "ok" ELSE workout.err,
                                rloc[t].user, rloc[t].id, rloc[t].arg, rloc[t].pre, FALSE)
    /\ UNCHANGED <<wfile, pfile, profiles, profilesTmp, rcalls, crashed, wspec, pspec,
                   history, storeVars, flowVars>>

\* file_storage.py:87-93 with _write_json up to temp_path.open("w") (line 68):
\* the profiles are read, the profile is put under its user id, and the
\* temporary file is opened, which empties it.
SaveProfileOf(t, profile) ==
    /\ StartsRepoCall(t)
    /\ RepoLockFree(t)
    /\ LET d == ReadJson(profiles)
       IN IF d.err # ""
          THEN /\ rdone' = Done(t, "save_profile", d.err, profile.user_id, "", profile,
                                AbsentFile, FALSE)
               /\ UNCHANGED <<profilesTmp, rpc, rloc, repoLock>>
          ELSE /\ profilesTmp' = PartialJson
               /\ rloc' = [rloc EXCEPT ![t] =
                              [op |-> "save_profile", user |-> profile.user_id,
                               id |-> "", arg |-> profile, pre |-> AbsentFile,
                               ppre |-> pfile[ProgressPath(profile.user_id)],
                               buf |-> JsonFile(StoreProfile(d.data, profile)),
                               hit |-> profile.user_id \in DOMAIN d.data]]
               /\ rpc' = [rpc EXCEPT ![t] = "write_json"]
               /\ repoLock' = t
               /\ rdone' = NoDone(rdone.by)
    /\ UNCHANGED <<wfile, pfile, profiles, crashed, wspec, pspec, history>>

\* save_profile(profile), called by a caller
SaveProfile(t) ==
    /\ \E profile \in InputProfiles : SaveProfileOf(t, profile)
    /\ UNCHANGED <<storeVars, flowVars>>

\* file_storage.py:69: json.dump cannot write the payload (the disk is full):
\* OSError leaves _write_json and save_profile, the lock is released, the
\* temporary file stays as far as it was written and users.json as it was.
WriteJsonFails(t) ==
    /\ rpc[t] = "write_json"
    /\ rdone' = Done(t, "save_profile", "OSError", rloc[t].user, "", rloc[t].arg, AbsentFile,
                     rloc[t].hit)
    /\ rpc' = [rpc EXCEPT ![t] = "idle"]
    /\ rloc' = [rloc EXCEPT ![t] = IdleRepoLocals]
    /\ repoLock' = ""
    /\ UNCHANGED <<wfile, pfile, profiles, profilesTmp, rcalls, crashed, wspec, pspec, history,
                   storeVars, flowVars>>

\* file_storage.py:69: json.dump writes the payload to the temporary file,
\* which is then closed.
WriteJson(t) ==
    /\ rpc[t] = "write_json"
    /\ profilesTmp' = rloc[t].buf
    /\ rpc' = [rpc EXCEPT ![t] = "replace"]
    /\ UNCHANGED <<wfile, pfile, profiles, repoLock, rloc, rcalls, crashed, rdone, wspec,
                   pspec, history, storeVars, flowVars>>

\* file_storage.py:70: temp_path.replace(path) renames the temporary file over
\* users.json; save_profile leaves the lock and returns.
ReplaceJson(t) ==
    /\ rpc[t] = "replace"
    /\ profiles' = profilesTmp
    /\ profilesTmp' = AbsentJson
    /\ rdone' = Done(t, "save_profile", "ok", rloc[t].user, "", rloc[t].arg, AbsentFile,
                     rloc[t].hit)
    /\ rpc' = [rpc EXCEPT ![t] = "idle"]
    /\ rloc' = [rloc EXCEPT ![t] = IdleRepoLocals]
    /\ repoLock' = ""
    /\ UNCHANGED <<wfile, pfile, rcalls, crashed, wspec, pspec, history, storeVars, flowVars>>

\* The process dies: the threads and what they hold in memory are gone, the
\* files stay as they are.
Crash ==
    /\ ~crashed
    /\ crashed' = TRUE
    /\ rpc' = [t \in Threads |-> "dead"]
    /\ rloc' = [t \in Threads |-> IdleRepoLocals]
    /\ repoLock' = ""
    /\ rcalls' = 0
    /\ rdone' = NoDone("")
    /\ wspec' = wfile
    /\ pspec' = pfile
    /\ UNCHANGED <<wfile, pfile, profiles, profilesTmp, history, storeVars, flowVars>>

RepoStep(t) ==
    \/ SaveWorkoutPlan(t)
    \/ CreatePlanFromWorkouts(t)
    \/ SaveStandaloneWorkout(t)
    \/ UpdateWorkoutEntry(t)
    \/ DeleteWorkoutEntry(t)
    \/ SaveWorkoutData(t)
    \/ SaveWorkoutExecution(t)
    \/ AddProgressEntry(t)
    \/ SaveProgressData(t)
    \/ SaveWorkoutExecutionStats(t)
    \/ SaveProfile(t)
    \/ WriteJson(t)
    \/ WriteJsonFails(t)
    \/ ReplaceJson(t)

RepoNext == Crash \/ \E t \in Threads : RepoStep(t)

\* Several users call the repository. The user ids are opaque strings: "./u1"
\* is another user than "u1".
UserIds == {"u1", "./u1", "u2"}
UserFiles == {WorkoutPath(user_id) : user_id \in UserIds}

\* The repository after construction, with no workouts file and no progress
\* file yet.
UsersRepoInit ==
    /\ wfile = [f \in UserFiles |-> AbsentFile]
    /\ pfile = [f \in UserFiles |-> AbsentProgress]
    /\ profiles = JsonFile(EmptyDict)
    /\ profilesTmp = AbsentJson
    /\ repoLock = ""
    /\ rpc = [t \in Threads |-> "idle"]
    /\ rloc = [t \in Threads |-> IdleRepoLocals]
    /\ rcalls = 0
    /\ crashed = FALSE
    /\ rdone = NoDone("")
    /\ wspec = wfile
    /\ pspec = pfile
    /\ history = [f \in UserFiles |-> <<>>]

\* save_profile(profile), called for one of the users
SaveProfileBy(t) ==
    /\ \E user_id \in UserIds, age \in {28, 35} :
          SaveProfileOf(t, NewProfile(user_id, age, Float(70), "male"))
    /\ UNCHANGED <<storeVars, flowVars>>

UsersStep(t) ==
    \/ SaveProfileBy(t)
    \/ WriteJson(t)
    \/ ReplaceJson(t)
    \/ \E user_id \in UserIds :
          SaveWorkoutPlanOf(t, user_id, [plan_id |-> "p1", entries |-> <<NewEntry("e1", "mon")>>])
    \/ \E user_id \in UserIds, day \in {"mon", "tue"} :
          SaveStandaloneWorkoutOf(t, user_id, NewEntry("e1", day))
    \/ \E user_id \in UserIds : DeleteWorkoutEntryOf(t, user_id, "e1")
    \/ SaveWorkoutData(t)
    \/ \E user_id \in UserIds :
          SaveWorkoutExecutionOf(t, user_id, [workout_entry_id |-> "e1", execution_date |-> 1])
    \/ SaveProgressData(t)
    \/ SaveWorkoutExecutionStats(t)
    \/ UpdateWorkoutEntry(t)

UsersNext == \E t \in Threads : UsersStep(t)

-----------------------------------------------------------------------------
(* The conversation handlers (src/handlers/conversation.py,                *)
(* workout_creation.py, callbacks.py)                                      *)
(*                                                                         *)
(* The events of one user are handled one at a time on FlowThread, within  *)
(* the timeout of the conversation: no time passes between them. A handler *)
(* is one step, up to the repository call it makes; the call then runs in  *)
(* the steps of the repository and the handler goes on when it returns. A  *)
(* button the bot has displayed stays in the chat, so its callback can     *)
(* come at any time; a text message goes to a next-step handler if one is  *)
(* registered for the chat, and to the command handlers otherwise. While a *)
(* flow is open the user presses the buttons of the question the flow has  *)
(* asked last, or one of the buttons that save, restart or cancel it.      *)

FlowThread == "t1"
FlowUser == "u1"
ProfileFlow == "profile_creation"
WorkoutFlow == "workout_creation"

\* The store as a handler has it between two of the calls it makes.
StoreNow == [states |-> states, state_timestamps |-> state_timestamps, heap |-> heap]

\* A dict the handler builds and stores under the key: a reference no other
\* key holds (the dict the key held is dropped as the new one is stored).
NewRef(s, key) ==
    LET held == {s.states[k] : k \in (DOMAIN s.states) \ {key}}
    IN CHOOSE o \in ObjIds : /\ o \notin held
                             /\ \A p \in ObjIds : p < o => p \in held

\* state_manager.py:22-32, for an entry that has not expired: the reference of
\* the stored dict, 0 for None
GetStateIn(s, user_id, state_type) ==
    IF Key(user_id, state_type) \in DOMAIN s.states
    THEN s.states[Key(user_id, state_type)] ELSE 0

\* `if not state`: get_state returned None or an empty dict
Falsy(s, ref) == ref = 0 \/ s.heap[ref] = EmptyDict

\* state_manager.py:34-42: the dict `ref`, whose content is `content`, is
\* stored under the key and the timestamp of the pair is set.
SetStateIn(s, user_id, state_type, ref, content) ==
    LET st == Put(s.states, Key(user_id, state_type), ref)
        h == Put(s.heap, ref, content)
    IN [states |-> st,
        state_timestamps |->
            Put(s.state_timestamps, user_id,
                Put(IF user_id \in DOMAIN s.state_timestamps
                    THEN s.state_timestamps[user_id] ELSE EmptyDict,
                    state_type, now)),
        heap |-> [o \in (DOMAIN h) \cap {st[k] : k \in DOMAIN st} |-> h[o]]]

\* state_manager.py:44-48: update_state(user_id, state_type, updates)
UpdateStateIn(s, user_id, state_type, updates) ==
    LET ref == GetStateIn(s, user_id, state_type)
        target == IF Falsy(s, ref) THEN NewRef(s, Key(user_id, state_type)) ELSE ref
        old == IF Falsy(s, ref) THEN EmptyDict ELSE s.heap[ref]
    IN SetStateIn(s, user_id, state_type, target, Merge(old, updates))

\* An update that does not refresh the stored state.
ChangeDropped(s, user_id, state_type, content) == s

\* The handler has changed the dict get_state gave it, which is the stored
\* dict, so that its content is `content`, and passes it to update_state.
ChangedAndUpdated(s, user_id, state_type, content) ==
    UpdateStateIn([s EXCEPT !.heap[GetStateIn(s, user_id, state_type)] = content],
                  user_id, state_type, content)

\* A clear that leaves the state where it is.
ClearKeepsIn(s, user_id, state_type) == s

\* state_manager.py:50-61: clear_state(user_id, state_type)
ClearStateIn(s, user_id, state_type) ==
    LET st == Pop(s.states, Key(user_id, state_type))
    IN [states |-> st,
        state_timestamps |->
            IF user_id \in DOMAIN s.state_timestamps
            THEN [s.state_timestamps EXCEPT ![user_id] = Pop(@, state_type)]
            ELSE s.state_timestamps,
        heap |-> [o \in (DOMAIN s.heap) \cap {st[k] : k \in DOMAIN st} |-> s.heap[o]]]

\* The store after the handler's calls.
StoreBecomes(s) ==
    /\ states' = s.states
    /\ state_timestamps' = s.state_timestamps
    /\ heap' = s.heap
    /\ UNCHANGED <<smLock, spc, sloc, now, calls, lastSet, episode>>

\* A message the user types, as the parsers see it: decimal digits, the word
\* "nan", or another word.
Digits(n) == [kind |-> "digits", val |-> n]
NanText == [kind |-> "nan", val |-> 0]
WordText == [kind |-> "word", val |-> 0]
\* What the user types in the profile flow and in the workout flow.
ProfileTexts == {Digits(10), Digits(200), Digits(250), NanText, WordText}
WorkoutTexts == {Digits(10), Digits(200), NanText, WordText}

\* int(text.strip())
ParseInt(text) ==
    IF text.kind = "digits" THEN [err |-> "", val |-> text.val]
    ELSE [err |-> "ValueError", val |-> 0]

\* float(text.strip().replace(",", ".")): float("nan") is the value nan
ParseFloat(text) ==
    IF text.kind = "digits" THEN [err |-> "", val |-> Float(text.val)]
    ELSE IF text.kind = "nan" THEN [err |-> "", val |-> NaN]
    ELSE [err |-> "ValueError", val |-> NaN]

Invalid == [is_valid |-> FALSE, value |-> None]
Valid(v) == [is_valid |-> TRUE, value |-> Some(v)]

\* validation.py:20-30
ValidateAge(age_str) ==
    LET age == ParseInt(age_str)
    IN IF age.err # "" THEN Invalid
       ELSE IF age.val < 10 THEN Invalid
       ELSE IF age.val > 100 THEN Invalid
       ELSE Valid(age.val)

\* A validation that refuses what no comparison holds for.
ValidateWeightStrict(weight_str) ==
    LET weight == ParseFloat(weight_str)
    IN IF weight.err # "" \/ weight.val.kind # "float" THEN Invalid
       ELSE IF FloatLt(weight.val, 20) THEN Invalid
       ELSE IF FloatGt(weight.val, 300) THEN Invalid
       ELSE Valid(weight.val)

\* validation.py:33-43
ValidateWeight(weight_str) ==
    LET weight == ParseFloat(weight_str)
    IN IF weight.err # "" THEN Invalid
       ELSE IF FloatLt(weight.val, 20) THEN Invalid
       ELSE IF FloatGt(weight.val, 300) THEN Invalid
       ELSE Valid(weight.val)

\* utils/constants.py:63-71
PROFILE_FIELDS_ORDER ==
    <<"age", "gender", "weight", "goal", "experience", "preferred_location", "workout_time">>

\* The values of the buttons the bot displays for a field (constants.py:26-53;
\* one value of each field).
ButtonValues ==
    [gender |-> {"male"}, goal |-> {"lose"}, experience |-> {"beginner"},
     preferred_location |-> {"home"}, workout_time |-> {"short"}]

\* models.py:60-69: the values the Literal fields accept
ProfileLiterals ==
    [gender |-> {"male", "female", "other"}, goal |-> {"lose", "gain", "maintain"},
     experience |-> {"beginner", "intermediate", "advanced"},
     preferred_location |-> {"home", "gym"}, workout_time |-> {"short", "medium", "long"}]

\* validation.py:11-17: UserProfile(**raw_data) needs every field, a positive
\* age and weight and an allowed value in each Literal field; updated_at is
\* the time of construction.
ValidateProfileData(raw_data) ==
    IF \/ \E f \in {"user_id", "age", "weight"} \cup DOMAIN ProfileLiterals :
             f \notin DOMAIN raw_data
       \/ raw_data["age"] <= 0
       \/ FloatLe(raw_data["weight"], 0)
       \/ \E f \in DOMAIN ProfileLiterals : raw_data[f] \notin ProfileLiterals[f]
    THEN [err |-> "ValidationError", val |-> None]
    ELSE [err |-> "",
          val |-> Some([user_id |-> raw_data["user_id"], age |-> raw_data["age"],
                        gender |-> raw_data["gender"], weight |-> raw_data["weight"],
                        goal |-> raw_data["goal"], experience |-> raw_data["experience"],
                        preferred_location |-> raw_data["preferred_location"],
                        workout_time |-> raw_data["workout_time"], updated_at |-> 1])]

\* conversation.py:54-58: the state a flow begins with
NewProfileState(user_id) ==
    [user_id |-> user_id, collected_data |-> EmptyDict, current_field_index |-> 0]

\* What a handler leaves: the store, the next-step handlers it registered and
\* the message it displayed.
Asked(s, reg, shown) == [store |-> s, reg |-> reg, shown |-> shown]

\* conversation.py:251-286
ShowSummary(s, user_id) ==
    LET ref == GetStateIn(s, user_id, ProfileFlow)
        collected_data == Put(s.heap[ref].collected_data, "user_id", user_id)
    IN IF Falsy(s, ref) THEN Asked(s, {}, "")
       ELSE IF \E f \in {PROFILE_FIELDS_ORDER[i] : i \in DOMAIN PROFILE_FIELDS_ORDER} :
                  f \notin DOMAIN collected_data
       THEN Asked(s, {}, "missing_fields")
       ELSE IF ValidateProfileData(collected_data).err # ""
       THEN Asked(s, {}, "validation_error")
       ELSE Asked(s, {}, "summary")

\* conversation.py:66-105
AskNextField(s, user_id) ==
    LET ref == GetStateIn(s, user_id, ProfileFlow)
        state == s.heap[ref]
        field == PROFILE_FIELDS_ORDER[state.current_field_index + 1]
    IN IF Falsy(s, ref) THEN Asked(s, {}, "expired")
       ELSE IF state.current_field_index >= Len(PROFILE_FIELDS_ORDER)
       THEN ShowSummary(s, user_id)
       ELSE Asked(ChangedAndUpdated(s, user_id, ProfileFlow,
                                    Put(state, "current_field", field)),
                  IF field \in {"age", "weight"} THEN {field} ELSE {},
                  "ask_" \o field)

\* A step that advances without collecting.
SkipField(state, field, value) == [state EXCEPT !.current_field_index = @ + 1]

\* conversation.py:119-121, 136-138, 225-242: the value is collected under
\* the field and the step pointer advances.
CollectField(state, field, value) ==
    [state EXCEPT !.collected_data = Put(@, field, value),
                  !.current_field_index = @ + 1]

\* The step pointer is followed up to MaxFieldIndex.
MaxFieldIndex == 8

\* The values submitted since the flow began at its first field, as long as
\* they came in the order of the fields.
OutOfOrder == [ok |-> FALSE, vals |-> <<>>]
FromFirstField == [ok |-> TRUE, vals |-> <<>>]
Submitted(field, value) ==
    IF /\ inOrder.ok
       /\ Len(inOrder.vals) < Len(PROFILE_FIELDS_ORDER)
       /\ PROFILE_FIELDS_ORDER[Len(inOrder.vals) + 1] = field
    THEN [inOrder EXCEPT !.vals = Append(@, value)]
    ELSE OutOfOrder

NoHandler == [shown |-> "", before |-> EmptyDict]
Ran(shown) == [shown |-> shown, before |-> EmptyDict]

\* No handler of a second delivery is running.
NoDuplicate == [pc |-> "idle", base |-> 0, workout_entry |-> None]

\* The user of the conversation has no files yet.
NoFilesYet ==
    /\ wfile[FlowUser] = AbsentFile
    /\ pfile[FlowUser] = AbsentProgress

FlowInit ==
    /\ fpc = "idle"
    /\ nextStep = {}
    /\ flast = NoHandler
    /\ inOrder = OutOfOrder
    /\ convo = ""
    /\ fdup = NoDuplicate


\* The flows save at most MaxSaves times in one run of the model.
MaxSaves == 2
SavesLeft == rcalls < MaxSaves

\* A run of the model follows one of the two conversations: the handlers that
\* begin a flow, and the flow they begin.
Begins ==
    [start_profile_creation |-> ProfileFlow, profile_edit |-> ProfileFlow,
     start_workout_creation |-> WorkoutFlow]
Converses(state_type) == convo \in {"", state_type}

\* An event of the flow is handled: no handler is running, and the entry of
\* the flow has not expired.
Handles(state_type) ==
    /\ fpc = "idle"
    /\ fdup = NoDuplicate
    /\ ~Expired(FlowUser, state_type)
    /\ Converses(state_type)

\* An event of a flow the user has begun.
HandlesStep(state_type) ==
    /\ Handles(state_type)
    /\ convo = state_type

\* The button pressed belongs to the question asked last, if a flow is open.
AnswersField(field) ==
    LET ref == GetStateIn(StoreNow, FlowUser, ProfileFlow)
    IN ref # 0 => heap[ref]["current_field"] = field

\* The handler ran without a repository call: `a` is what it left, `taken`
\* the next-step handler the message was delivered to.
HandlerDone(a, handler, taken) ==
    /\ StoreBecomes(a.store)
    /\ nextStep' = (nextStep \ taken) \cup a.reg
    /\ flast' = Ran(a.shown)
    /\ convo' = IF handler \in DOMAIN Begins THEN Begins[handler] ELSE convo
    /\ fdup' = fdup
    /\ UNCHANGED <<fpc, repoVars>>

\* conversation.py:32-60: /profile
StartProfileCreation ==
    /\ Handles(ProfileFlow)
    /\ nextStep = {}
    /\ LET existing_profile == GetProfile(profiles, FlowUser)
       IN IF existing_profile.err # ""
          THEN /\ HandlerDone(Asked(StoreNow, {}, ""), "start_profile_creation", {})
               /\ inOrder' = inOrder
          ELSE IF existing_profile.val # None
          THEN /\ HandlerDone(Asked(StoreNow, {}, "existing_profile"),
                              "start_profile_creation", {})
               /\ inOrder' = inOrder
          ELSE /\ HandlerDone(AskNextField(SetStateIn(StoreNow, FlowUser, ProfileFlow,
                                                      NewRef(StoreNow, Key(FlowUser, ProfileFlow)),
                                                      NewProfileState(FlowUser)),
                                           FlowUser),
                              "start_profile_creation", {})
               /\ inOrder' = FromFirstField

\* callbacks.py:169-191: the button "profile_edit"
ProfileEditCallback ==
    /\ Handles(ProfileFlow)
    /\ LET cleared == ClearStateIn(StoreNow, FlowUser, ProfileFlow)
       IN HandlerDone(AskNextField(SetStateIn(cleared, FlowUser, ProfileFlow,
                                              NewRef(cleared, Key(FlowUser, ProfileFlow)),
                                              NewProfileState(FlowUser)),
                                   FlowUser),
                      "profile_edit", {})
    /\ inOrder' = FromFirstField

\* callbacks.py:193-208: the button "profile_edit_summary"
ProfileEditSummaryCallback ==
    /\ HandlesStep(ProfileFlow)
    /\ LET ref == GetStateIn(StoreNow, FlowUser, ProfileFlow)
       IN IF Falsy(StoreNow, ref)
          THEN /\ HandlerDone(Asked(StoreNow, {}, ""), "profile_edit_summary", {})
               /\ inOrder' = inOrder
          ELSE /\ HandlerDone(AskNextField(
                                  ChangedAndUpdated(StoreNow, FlowUser, ProfileFlow,
                                      [heap[ref] EXCEPT !.current_field_index = 0]),
                                  FlowUser),
                              "profile_edit_summary", {})
               /\ inOrder' = FromFirstField

\* A typed value or a button value reaches the flow (conversation.py:117-122,
\* 134-139, 219-245): without a state nothing is collected; `expired` is what
\* the handler displays then.
FieldSubmitted(handler, field, value, taken, expired) ==
    LET ref == GetStateIn(StoreNow, FlowUser, ProfileFlow)
    IN IF Falsy(StoreNow, ref)
       THEN /\ HandlerDone(Asked(StoreNow, {}, expired), handler, taken)
            /\ inOrder' = inOrder
       ELSE /\ heap[ref].current_field_index < MaxFieldIndex
            /\ HandlerDone(AskNextField(
                               ChangedAndUpdated(StoreNow, FlowUser, ProfileFlow,
                                                 CollectField(heap[ref], field, value)),
                               FlowUser),
                           handler, taken)
            /\ inOrder' = Submitted(field, value)

\* The typed value is refused: the handler displays the error and registers
\* itself for the next message (conversation.py:112-115, 129-132).
Reprompted(handler, field) ==
    /\ HandlerDone(Asked(StoreNow, {field}, "retry_" \o field), handler, {field})
    /\ inOrder' = inOrder

\* conversation.py:107-122
HandleAgeInputOf(text) ==
    /\ HandlesStep(ProfileFlow)
    /\ "age" \in nextStep
    /\ LET v == ValidateAge(text)
       IN IF ~v.is_valid THEN Reprompted("_handle_age_input", "age")
          ELSE FieldSubmitted("_handle_age_input", "age", v.value[1], {"age"}, "")

HandleAgeInput == \E text \in ProfileTexts : HandleAgeInputOf(text)

\* conversation.py:124-139
HandleWeightInputOf(text) ==
    /\ HandlesStep(ProfileFlow)
    /\ "weight" \in nextStep
    /\ LET v == ValidateWeight(text)
       IN IF ~v.is_valid THEN Reprompted("_handle_weight_input", "weight")
          ELSE FieldSubmitted("_handle_weight_input", "weight", v.value[1], {"weight"}, "")

HandleWeightInput == \E text \in ProfileTexts : HandleWeightInputOf(text)

\* callbacks.py:107-147 and conversation.py:217-245: a button "profile_field_*"
HandleButtonSelection ==
    /\ HandlesStep(ProfileFlow)
    /\ \E field \in DOMAIN ButtonValues : \E value \in ButtonValues[field] :
          /\ AnswersField(field)
          /\ FieldSubmitted("handle_button_selection", field, value, {}, "expired")

\* conversation.py:308-320 with the beginning of the repository's
\* save_profile: the user id is put into the collected data in place, the
\* profile is validated and the repository is called.
ConversationSaveProfile ==
    /\ HandlesStep(ProfileFlow)
    /\ LET ref == GetStateIn(StoreNow, FlowUser, ProfileFlow)
           collected_data == Put(heap[ref].collected_data, "user_id", FlowUser)
           v == ValidateProfileData(collected_data)
       IN IF Falsy(StoreNow, ref)
          THEN HandlerDone(Asked(StoreNow, {}, "expired"), "save_profile", {})
          ELSE /\ StoreBecomes([StoreNow EXCEPT !.heap[ref].collected_data = collected_data])
               /\ nextStep' = nextStep
               /\ IF v.err # ""
                  THEN /\ flast' = [shown |-> "save_error", before |-> profiles.data]
                       /\ UNCHANGED <<fpc, convo, fdup, repoVars>>
                  ELSE /\ SavesLeft
                       /\ SaveProfileOf(FlowThread, v.val[1])
                       /\ fpc' = "save_profile"
                       /\ flast' = [shown |-> "saving", before |-> profiles.data]
                       /\ UNCHANGED <<convo, fdup>>
    /\ inOrder' = inOrder

\* A save step that clears the state whatever the repository did.
SaveProfileClears(s, result) == Asked(ClearStateIn(s, FlowUser, ProfileFlow), {}, "saved")

\* conversation.py:320-326: save_profile of the repository has returned, and
\* the state is cleared, or it has raised, and the error is displayed.
SaveProfileReturned(s, result) ==
    IF result = "ok"
    THEN Asked(ClearStateIn(s, FlowUser, ProfileFlow), {}, "saved")
    ELSE Asked(s, {}, "save_error")

ConversationSaveProfileReturns ==
    /\ fpc = "save_profile"
    /\ rpc[FlowThread] = "idle"
    /\ LET a == SaveProfileReturned(StoreNow, rdone.result)
       IN /\ StoreBecomes(a.store)
          /\ flast' = [flast EXCEPT !.shown = a.shown]
    /\ fpc' = "idle"
    /\ UNCHANGED <<nextStep, inOrder, convo, fdup, repoVars>>

\* conversation.py:328-331 and callbacks.py:159-167: the button "profile_cancel"
CancelProfileCreation ==
    /\ HandlesStep(ProfileFlow)
    /\ HandlerDone(Asked(ClearStateIn(StoreNow, FlowUser, ProfileFlow), {}, "cancelled"),
                   "cancel_profile_creation", {})
    /\ inOrder' = OutOfOrder

-----------------------------------------------------------------------------
(* The workout-creation handlers (src/handlers/workout_creation.py)        *)

\* workout_creation.py:40-45: the state the flow begins with
NewWorkoutState(user_id) ==
    [user_id |-> user_id, day_of_week |-> None, exercises |-> <<>>, current_step |-> "day"]

\* workout_creation.py:146: the exercise the user is describing
NewExercise(exercise_name) ==
    [name |-> exercise_name, reps |-> None, sets |-> None, weight |-> None]

\* The days, the exercises of the category and the numbers of sets the
\* buttons offer (one day, one exercise, one number).
DayButtons == {"mon"}
CategoryExercises == <<"squat">>
SetsButtons == {3}

\* The list of exercises is followed up to MaxExercises.
MaxExercises == 1

\* validation.py:46-56
ValidateReps(reps_str) ==
    LET reps == ParseInt(reps_str)
    IN IF reps.err # "" THEN Invalid
       ELSE IF reps.val < 1 THEN Invalid
       ELSE IF reps.val > 100 THEN Invalid
       ELSE Valid(reps.val)

\* validation.py:59-69
ValidateSets(sets_str) ==
    LET sets == ParseInt(sets_str)
    IN IF sets.err # "" THEN Invalid
       ELSE IF sets.val < 1 THEN Invalid
       ELSE IF sets.val > 10 THEN Invalid
       ELSE Valid(sets.val)

\* validation.py:72-82
ValidateExerciseWeight(weight_str) ==
    LET weight == ParseFloat(weight_str)
    IN IF weight.err # "" THEN Invalid
       ELSE IF FloatLt(weight.val, 0) THEN Invalid
       ELSE IF FloatGt(weight.val, 500) THEN Invalid
       ELSE Valid(weight.val)

\* `"current_exercise" in state` holds and the value is a dict (when the
\* value is None, the item assignment raises TypeError).
DescribesExercise(state) ==
    /\ "current_exercise" \in DOMAIN state
    /\ state["current_exercise"] # None

\* state["current_exercise"][key] = value
WithExercise(state, key, value) ==
    [state EXCEPT !["current_exercise"] = Some([@[1] EXCEPT ![key] = Some(value)])]

\* The button pressed belongs to the step the flow is at, if a flow is open.
AnswersStep(step) ==
    LET ref == GetStateIn(StoreNow, FlowUser, WorkoutFlow)
    IN ref # 0 => heap[ref].current_step = step

\* The handler of the workout flow ran without a repository call.
WorkoutHandlerDone(a, handler, taken) ==
    /\ HandlerDone(a, handler, taken)
    /\ inOrder' = inOrder

\* workout_creation.py:34-47: /createworkout
StartWorkoutCreation ==
    /\ Handles(WorkoutFlow)
    /\ nextStep = {}
    /\ HandlerDone(Asked(SetStateIn(StoreNow, FlowUser, WorkoutFlow,
                                    NewRef(StoreNow, Key(FlowUser, WorkoutFlow)),
                                    NewWorkoutState(FlowUser)),
                         {}, "ask_day"),
                   "start_workout_creation", {})
    /\ inOrder' = inOrder

\* A button or a typed value reaches the flow: without a state nothing is
\* written and `expired` is displayed; `Changed(state)` is the state as the
\* handler leaves it.
WorkoutStep(handler, taken, expired, Changed(_), reg, shown) ==
    LET ref == GetStateIn(StoreNow, FlowUser, WorkoutFlow)
    IN IF Falsy(StoreNow, ref)
       THEN WorkoutHandlerDone(Asked(StoreNow, {}, expired), handler, taken)
       ELSE WorkoutHandlerDone(Asked(ChangedAndUpdated(StoreNow, FlowUser, WorkoutFlow,
                                                       Changed(heap[ref])),
                                     reg, shown),
                               handler, taken)

\* workout_creation.py:65-75: a button "workout_day_*"
HandleDaySelection ==
    /\ HandlesStep(WorkoutFlow)
    /\ AnswersStep("day")
    /\ \E day \in DayButtons :
          LET Changed(state) == [state EXCEPT !.day_of_week = Some(day),
                                              !.current_step = "exercise_choice"]
          IN WorkoutStep("handle_day_selection", {}, "expired", Changed, {},
                         "ask_exercise_choice")

\* workout_creation.py:106-137: a button "workout_category_*"
ShowExercisesByCategory ==
    /\ HandlesStep(WorkoutFlow)
    /\ AnswersStep("exercise_choice")
    /\ LET Changed(state) == Put(state, "current_category_exercises", CategoryExercises)
       IN WorkoutStep("show_exercises_by_category", {}, "expired", Changed, {},
                      "ask_exercise")

\* callbacks.py:240-280 and workout_creation.py:139-149, 170-177: a button
\* "workout_idx_*"; the flow asks for the repetitions.
HandleExerciseSelection ==
    /\ HandlesStep(WorkoutFlow)
    /\ AnswersStep("exercise_choice")
    /\ \E idx \in DOMAIN CategoryExercises :
          LET ref == GetStateIn(StoreNow, FlowUser, WorkoutFlow)
              Changed(state) ==
                  [Put(state, "current_exercise", Some(NewExercise(CategoryExercises[idx])))
                      EXCEPT !.current_step = "reps"]
          IN IF ~Falsy(StoreNow, ref) /\ "current_category_exercises" \notin DOMAIN heap[ref]
             THEN WorkoutHandlerDone(Asked(StoreNow, {}, "no_exercises_list"),
                                     "workout_idx_callback", {})
             ELSE WorkoutStep("handle_exercise_selection", {}, "expired", Changed, {"reps"},
                              "ask_reps")

\* A typed value of the exercise reaches the flow (workout_creation.py:189-194,
\* 241-246): nothing happens without a state or without the key
\* "current_exercise", and TypeError ends the handler when no exercise is
\* being described.
ExerciseValueTyped(handler, field, key, value, step, shown) ==
    LET ref == GetStateIn(StoreNow, FlowUser, WorkoutFlow)
        Changed(state) == [WithExercise(state, key, value) EXCEPT !.current_step = step]
    IN IF Falsy(StoreNow, ref) \/ ~DescribesExercise(heap[ref])
       THEN WorkoutHandlerDone(Asked(StoreNow, {}, ""), handler, {field})
       ELSE WorkoutStep(handler, {field}, "", Changed, {}, shown)

\* The typed value is refused (workout_creation.py:184-187, 236-239, 286-289).
WorkoutReprompted(handler, field) ==
    WorkoutHandlerDone(Asked(StoreNow, {field}, "retry_" \o field), handler, {field})

\* workout_creation.py:179-194
HandleRepsInputOf(text) ==
    /\ HandlesStep(WorkoutFlow)
    /\ "reps" \in nextStep
    /\ LET v == ValidateReps(text)
       IN IF ~v.is_valid THEN WorkoutReprompted("_handle_reps_input", "reps")
          ELSE ExerciseValueTyped("_handle_reps_input", "reps", "reps", v.value[1], "sets",
                                  "ask_sets")

HandleRepsInput == \E text \in WorkoutTexts : HandleRepsInputOf(text)

\* workout_creation.py:213-224: a button "workout_sets_<n>"
HandleSetsSelection ==
    /\ HandlesStep(WorkoutFlow)
    /\ AnswersStep("sets")
    /\ \E sets \in SetsButtons :
          LET ref == GetStateIn(StoreNow, FlowUser, WorkoutFlow)
              Changed(state) == [WithExercise(state, "sets", sets)
                                    EXCEPT !.current_step = "weight"]
          IN IF ~Falsy(StoreNow, ref) /\ ~DescribesExercise(heap[ref])
             THEN WorkoutHandlerDone(Asked(StoreNow, {}, ""), "handle_sets_selection", {})
             ELSE WorkoutStep("handle_sets_selection", {}, "expired", Changed, {},
                              "ask_weight")

\* workout_creation.py:226-229: the button "workout_sets_manual"
AskSetsManual ==
    /\ HandlesStep(WorkoutFlow)
    /\ AnswersStep("sets")
    /\ WorkoutHandlerDone(Asked(StoreNow, {"sets"}, "ask_sets_manual"), "_ask_sets_manual", {})

\* workout_creation.py:231-246
HandleSetsInputOf(text) ==
    /\ HandlesStep(WorkoutFlow)
    /\ "sets" \in nextStep
    /\ LET v == ValidateSets(text)
       IN IF ~v.is_valid THEN WorkoutReprompted("_handle_sets_input", "sets")
          ELSE ExerciseValueTyped("_handle_sets_input", "sets", "sets", v.value[1],
                                  "weight", "ask_weight")

HandleSetsInput == \E text \in WorkoutTexts : HandleSetsInputOf(text)

\* workout_creation.py:296-309: the exercise described, with its weight, is
\* appended to the list.
AddExerciseToList(state, weight) ==
    [state EXCEPT !.exercises = Append(@, [state["current_exercise"][1]
                                               EXCEPT !.weight = weight]),
                  !["current_exercise"] = None,
                  !.current_step = "exercise_choice"]

\* The weight of the exercise is given (workout_creation.py:272-274, 292-294).
ExerciseWeightGiven(handler, taken, expired, weight) ==
    LET ref == GetStateIn(StoreNow, FlowUser, WorkoutFlow)
        Changed(state) == AddExerciseToList(state, weight)
    IN IF ~Falsy(StoreNow, ref) /\ ~DescribesExercise(heap[ref])
       THEN WorkoutHandlerDone(Asked(StoreNow, {}, ""), handler, taken)
       ELSE /\ ref # 0 => Len(heap[ref].exercises) < MaxExercises
            /\ WorkoutStep(handler, taken, expired, Changed, {}, "exercises_list")

\* workout_creation.py:265-274: the button "workout_weight_skip"
HandleWeightSkip ==
    /\ HandlesStep(WorkoutFlow)
    /\ AnswersStep("weight")
    /\ ExerciseWeightGiven("handle_weight_skip", {}, "expired", Some(Float(0)))

\* workout_creation.py:276-279: the button "workout_weight_manual"
AskWeightManual ==
    /\ HandlesStep(WorkoutFlow)
    /\ AnswersStep("weight")
    /\ WorkoutHandlerDone(Asked(StoreNow, {"exercise_weight"}, "ask_weight_manual"),
                          "_ask_weight_manual", {})

\* workout_creation.py:293: weight if weight > 0 else None
StoredWeight(weight) == IF FloatGt(weight, 0) THEN Some(weight) ELSE None

\* workout_creation.py:281-294
HandleExerciseWeightInputOf(text) ==
    /\ HandlesStep(WorkoutFlow)
    /\ "exercise_weight" \in nextStep
    /\ LET v == ValidateExerciseWeight(text)
       IN IF ~v.is_valid THEN WorkoutReprompted("_handle_weight_input", "exercise_weight")
          ELSE ExerciseWeightGiven("_handle_weight_input", {"exercise_weight"}, "",
                                   StoredWeight(v.value[1]))

HandleExerciseWeightInput == \E text \in WorkoutTexts : HandleExerciseWeightInputOf(text)

\* models.py:10-16: Exercise(...) needs a number of repetitions and of sets
BuildExercise(ex_data) ==
    IF ex_data.reps = None \/ ex_data.sets = None
    THEN [err |-> "ValidationError", val |-> None]
    ELSE [err |-> "",
          val |-> Some([name |-> ex_data.name, reps |-> ex_data.reps[1],
                        sets |-> ex_data.sets[1], weight |-> ex_data.weight,
                        rest_seconds |-> 60])]

\* workout_creation.py:333-368 with workout_service.py:120-126 and the
\* beginning of the repository's save_standalone_workout: the entry is built
\* from the state, with a new id, and the repository is called.
SaveWorkout ==
    /\ HandlesStep(WorkoutFlow)
    /\ LET ref == GetStateIn(StoreNow, FlowUser, WorkoutFlow)
           state == heap[ref]
           built == [i \in DOMAIN state.exercises |-> BuildExercise(state.exercises[i])]
           f == wfile[FlowUser]
           used == {f.standalone_workouts[i].entry_id : i \in DOMAIN f.standalone_workouts}
                   \cup {PlanEntries(f.plans)[i].entry_id : i \in DOMAIN PlanEntries(f.plans)}
       IN IF Falsy(StoreNow, ref)
          THEN WorkoutHandlerDone(Asked(StoreNow, {}, "expired"), "save_workout", {})
          ELSE IF state.day_of_week = None
          THEN WorkoutHandlerDone(Asked(StoreNow, {}, "no_day"), "save_workout", {})
          ELSE IF state.exercises = <<>>
          THEN WorkoutHandlerDone(Asked(StoreNow, {}, "no_exercises"), "save_workout", {})
          ELSE IF \E i \in DOMAIN built : built[i].err # ""
          THEN WorkoutHandlerDone(Asked(StoreNow, {}, ""), "save_workout", {})
          ELSE \E entry_id \in EntryIds \ used :
                  LET workout_entry ==
                          [entry_id |-> entry_id, day_of_week |-> state.day_of_week[1],
                           exercises |-> [i \in DOMAIN built |-> built[i].val[1]],
                           completion_count |-> 0, last_completed |-> None]
                  IN /\ SavesLeft
                     /\ StartsRepoCall(FlowThread)
                     /\ WorkoutsCallBegins(FlowThread, FlowUser, "save_standalone_workout",
                                           entry_id, workout_entry,
                                           SaveStandaloneWorkoutRes(f, workout_entry),
                                           SaveStandaloneWorkoutRes(wspec[FlowUser],
                                                                    workout_entry))
                     /\ fpc' = "save_workout"
                     /\ flast' = Ran("saving")
                     /\ UNCHANGED <<nextStep, inOrder, convo, fdup>>

\* workout_creation.py:368-381: save_standalone_workout has returned, and the
\* state is cleared, or it has raised, and the handler ends.
SaveWorkoutReturned(s, result) ==
    IF result = "ok"
    THEN Asked(ClearStateIn(s, FlowUser, WorkoutFlow), {}, "workout_saved")
    ELSE Asked(s, {}, "")

SaveWorkoutReturns ==
    /\ fpc = "save_workout"
    /\ rpc[FlowThread] = "idle"
    /\ LET a == SaveWorkoutReturned(StoreNow, rdone.result)
       IN /\ StoreBecomes(a.store)
          /\ flast' = Ran(a.shown)
    /\ fpc' = "idle"
    /\ UNCHANGED <<nextStep, inOrder, convo, fdup, repoVars>>

\* The thread of the handler of a second delivery.
DupThread == "t2"

\* callbacks.py:505-512 and workout_creation.py:333-366, on a second thread:
\* the button "workout_save" is delivered again while the handler of its
\* first delivery is in save_standalone_workout or has just left it. The
\* state is still there, so the handler builds its own entry, with an id of
\* its own, and goes on to call the repository. `base` is the number of
\* standalone entries the first handler found.
SaveWorkoutTwice ==
    /\ fpc = "save_workout"
    /\ fdup = NoDuplicate
    /\ LET ref == GetStateIn(StoreNow, FlowUser, WorkoutFlow)
           state == heap[ref]
           built == [i \in DOMAIN state.exercises |-> BuildExercise(state.exercises[i])]
           first == IF rpc[FlowThread] = "idle" THEN rdone ELSE rloc[FlowThread]
           before == LoadWorkoutData(first.pre).standalone_workouts
           after == LoadWorkoutData(wfile[FlowUser]).standalone_workouts
           used == {first.id} \cup {before[i].entry_id : i \in DOMAIN before}
                              \cup {after[i].entry_id : i \in DOMAIN after}
       IN /\ ~Falsy(StoreNow, ref)
          /\ state.day_of_week # None
          /\ state.exercises # <<>>
          /\ \A i \in DOMAIN built : built[i].err = ""
          /\ \E entry_id \in EntryIds \ used :
                 fdup' = [pc |-> "lock", base |-> Len(before),
                          workout_entry |->
                              Some([entry_id |-> entry_id,
                                    day_of_week |-> state.day_of_week[1],
                                    exercises |-> [i \in DOMAIN built |-> built[i].val[1]],
                                    completion_count |-> 0, last_completed |-> None])]
    /\ UNCHANGED <<fpc, nextStep, flast, inOrder, convo, storeVars, repoVars>>

\* workout_creation.py:368 with workout_service.py:120-126 and the beginning
\* of the repository's save_standalone_workout: the second handler enters
\* `with self._lock` once the first has left it.
SaveWorkoutTwiceCalls ==
    /\ fdup.pc = "lock"
    /\ StartsRepoCall(DupThread)
    /\ LET workout_entry == fdup.workout_entry[1]
       IN WorkoutsCallBegins(DupThread, FlowUser, "save_standalone_workout",
                             workout_entry.entry_id, workout_entry,
                             SaveStandaloneWorkoutRes(wfile[FlowUser], workout_entry),
                             SaveStandaloneWorkoutRes(wspec[FlowUser], workout_entry))
    /\ fdup' = [fdup EXCEPT !.pc = "repo"]
    /\ UNCHANGED <<fpc, nextStep, flast, inOrder, convo>>

\* workout_creation.py:368-381 in the second handler
SaveWorkoutTwiceReturns ==
    /\ fdup.pc = "repo"
    /\ rpc[DupThread] = "idle"
    /\ StoreBecomes(SaveWorkoutReturned(StoreNow, rdone.result).store)
    /\ fdup' = NoDuplicate
    /\ UNCHANGED <<fpc, nextStep, flast, inOrder, convo, repoVars>>

\* workout_creation.py:384-387 and callbacks.py:514-521: the button
\* "workout_cancel"
CancelWorkoutCreation ==
    /\ HandlesStep(WorkoutFlow)
    /\ WorkoutHandlerDone(Asked(ClearStateIn(StoreNow, FlowUser, WorkoutFlow), {},
                                "workout_cancelled"),
                          "cancel_workout_creation", {})

\* callbacks.py:107-147 and conversation.py:217-245: a button of a question
\* the flow asked earlier is pressed again (its keyboard stays in the chat).
\* The handler does not compare the field of the button with the field the
\* flow is asking for.
HandleEarlierButton ==
    /\ HandlesStep(ProfileFlow)
    /\ \E field \in DOMAIN ButtonValues : \E value \in ButtonValues[field] :
          LET ref == GetStateIn(StoreNow, FlowUser, ProfileFlow)
          IN /\ ref # 0
             /\ field \in DOMAIN heap[ref].collected_data
             /\ heap[ref]["current_field"] # field
             /\ FieldSubmitted("handle_button_selection", field, value, {}, "expired")

\* The keyboards with the numbers of sets and with the weight have been
\* displayed in the chat: an exercise has gone through them in this flow or
\* in a flow saved before.
ExerciseKeyboardsShown ==
    LET ref == GetStateIn(StoreNow, FlowUser, WorkoutFlow)
    IN /\ ref # 0
       /\ \/ heap[ref].exercises # <<>>
          \/ wfile[FlowUser].standalone_workouts # <<>>

\* workout_creation.py:213-224: a button "workout_sets_<n>" of an earlier
\* exercise is pressed while the flow is at another step.
HandleEarlierSetsSelection ==
    /\ HandlesStep(WorkoutFlow)
    /\ ExerciseKeyboardsShown
    /\ ~AnswersStep("sets")
    /\ \E sets \in SetsButtons :
          LET ref == GetStateIn(StoreNow, FlowUser, WorkoutFlow)
              Changed(state) == [WithExercise(state, "sets", sets)
                                    EXCEPT !.current_step = "weight"]
          IN IF ~DescribesExercise(heap[ref])
             THEN WorkoutHandlerDone(Asked(StoreNow, {}, ""), "handle_sets_selection", {})
             ELSE WorkoutStep("handle_sets_selection", {}, "expired", Changed, {},
                              "ask_weight")

\* workout_creation.py:265-274: the button "workout_weight_skip" of an
\* earlier exercise is pressed while the flow is at another step.
HandleEarlierWeightSkip ==
    /\ HandlesStep(WorkoutFlow)
    /\ ExerciseKeyboardsShown
    /\ ~AnswersStep("weight")
    /\ ExerciseWeightGiven("handle_weight_skip", {}, "expired", Some(Float(0)))


FlowNext ==
    \/ StartProfileCreation
    \/ ProfileEditCallback
    \/ ProfileEditSummaryCallback
    \/ HandleAgeInput
    \/ HandleWeightInput
    \/ HandleButtonSelection
    \/ ConversationSaveProfile
    \/ WriteJson(FlowThread)
    \/ WriteJsonFails(FlowThread)
    \/ ReplaceJson(FlowThread)
    \/ ConversationSaveProfileReturns
    \/ CancelProfileCreation
    \/ StartWorkoutCreation
    \/ HandleDaySelection
    \/ ShowExercisesByCategory
    \/ HandleExerciseSelection
    \/ HandleRepsInput
    \/ HandleSetsSelection
    \/ AskSetsManual
    \/ HandleSetsInput
    \/ HandleWeightSkip
    \/ AskWeightManual
    \/ HandleExerciseWeightInput
    \/ SaveWorkout
    \/ SaveWorkoutData(FlowThread)
    \/ SaveWorkoutReturns
    \/ SaveWorkoutTwice
    \/ SaveWorkoutTwiceCalls
    \/ SaveWorkoutData(DupThread)
    \/ SaveWorkoutTwiceReturns
    \/ CancelWorkoutCreation

\* The events of one user, the buttons of earlier questions among them; the
\* typed values are an age, a weight and a number of repetitions in range.
TurnNext ==
    \/ StartProfileCreation
    \/ HandleAgeInputOf(Digits(10))
    \/ HandleWeightInputOf(Digits(200))
    \/ HandleButtonSelection
    \/ HandleEarlierButton
    \/ CancelProfileCreation
    \/ StartWorkoutCreation
    \/ HandleDaySelection
    \/ ShowExercisesByCategory
    \/ HandleExerciseSelection
    \/ HandleRepsInputOf(Digits(10))
    \/ HandleSetsSelection
    \/ HandleEarlierSetsSelection
    \/ HandleWeightSkip
    \/ HandleEarlierWeightSkip
    \/ SaveWorkout
    \/ SaveWorkoutData(FlowThread)
    \/ SaveWorkoutReturns
    \/ CancelWorkoutCreation

-----------------------------------------------------------------------------
(* Specifications                                                          *)

Init == StoreInit /\ RepoInit /\ FlowInit

\* The conversation-state store, with handlers calling it from two threads.
StoreSpec == Init /\ [][StoreNext]_vars

\* The repository, with callers calling it from two threads.
RepoSpec == Init /\ [][RepoNext]_vars

\* The repository, with the calls of several users on two threads.
UsersInit == StoreInit /\ UsersRepoInit /\ FlowInit

UsersSpec == UsersInit /\ [][UsersNext]_vars

\* The conversation handlers, with the events of one user.
FlowStart == Init /\ NoFilesYet

FlowSpec == FlowStart /\ [][FlowNext]_vars

\* The conversation handlers, with buttons pressed out of turn.
TurnSpec == FlowStart /\ [][TurnNext]_vars

Next == StoreNext \/ RepoNext \/ FlowNext

Spec == Init /\ [][Next]_vars


-----------------------------------------------------------------------------
(* Claims about UserStateManager                                           *)

\* C1: a get_state call that finds its entry older than the timeout removes
\* the state and the timestamp and returns None: having found the entry
\* expired (and holding the lock), the call can go on to _clear_state.
C1_ExpiredGetEvicts ==
    \A t \in Threads : spc[t] = "get_evict" => ENABLED ClearState(t)

RECURSIVE ApplyInOrder(_, _, _, _)
\* base, then parts[order[i]], parts[order[i+1]], ... merged over it in turn
ApplyInOrder(base, parts, order, i) ==
    IF i > Len(parts) THEN base
    ELSE ApplyInOrder(Merge(base, parts[order[i]]), parts, order, i + 1)

\* The states the update_state calls of an episode leave when run one after
\* the other, in any order.
SerialOutcomes(ep) ==
    {ApplyInOrder(IF ep.base = None THEN EmptyDict ELSE ep.base[1], ep.parts, order, 1) :
        order \in Permutations(1 .. Len(ep.parts))}

\* C3: when update_state calls on one pair overlap and all have returned,
\* the stored state is the one some serial order of them leaves.
C3_UpdatesSerialize ==
    (Len(episode.parts) > 0 /\ episode.active = 0 /\ ~episode.void)
        => \E d \in SerialOutcomes(episode) :
              StoredView(episode.pair[1], episode.pair[2]) = Some(d)

\* C12: no state-store call blocks forever: a thread that is inside a call
\* can always take the next step of that call.
C12_StoreNeverBlocks ==
    \A t \in Threads : spc[t] # "idle" => ENABLED StoreStep(t)

\* The pair has a timestamp.
HasTimestamp(p) ==
    /\ p[1] \in DOMAIN state_timestamps
    /\ p[2] \in DOMAIN state_timestamps[p[1]]

\* C13: update_state(user, flow, partial) leaves the previous state (the empty
\* dict if the entry was absent or expired) with partial's keys overwritten
\* and the other keys kept, and sets the timestamp to the time of the update:
\* an update that found its entry expired can go on to evict it, and an update
\* that ran alone and has returned left exactly that state and that timestamp.
C13_UpdateMerges ==
    /\ \A t \in Threads : spc[t] = "upd_evict" => ENABLED ClearState(t)
    /\ (Len(episode.parts) = 1 /\ episode.active = 0 /\ ~episode.void)
          => /\ StoredView(episode.pair[1], episode.pair[2]) =
                   Some(Merge(IF episode.base = None THEN EmptyDict ELSE episode.base[1],
                              episode.parts[1]))
             /\ HasTimestamp(episode.pair)
             /\ state_timestamps[episode.pair[1]][episode.pair[2]] = episode.at

\* The pair has neither a state nor a timestamp.
EntryAbsent(p) ==
    /\ Key(p[1], p[2]) \notin DOMAIN states
    /\ ~HasTimestamp(p)

\* C14: clear_state(user, flow) called by a handler: after it get_state(user,
\* flow) returns None, and on an entry that is absent (as after a first clear)
\* it changes nothing in the store.
C14_ClearIdempotent ==
    [][\A t \in Threads, p \in Pairs :
          (spc[t] = "idle" /\ ClearStateOn(t, p))
              => /\ GetView(p[1], p[2])' = None
                 /\ EntryAbsent(p)'
                 /\ EntryAbsent(p) => /\ states' = states
                                      /\ state_timestamps' = state_timestamps
                                      /\ heap' = heap]_vars

\* clear_state has returned on a pair that had no entry, in a store that holds
\* other entries.
C14_Witness ==
    /\ lastSet.op = "clear"
    /\ ~lastSet.over
    /\ DOMAIN states # {}
    /\ GetView(lastSet.user, lastSet.flow) = None

\* C15: clear_all_states(user) removes the state and the timestamp of every
\* entry of the user, and leaves the state and the timestamp of every entry
\* that another user has set as they were.
C15_ClearAllOnlyOwn ==
    [][\A t \in Threads, u \in Users :
          ClearAllStatesOf(t, u)
              => /\ \A p \in Pairs : p[1] = u => EntryAbsent(p)'
                 /\ \A p \in Pairs :
                       (p[1] # u /\ HasTimestamp(p))
                           => /\ HasTimestamp(p)'
                              /\ StoredView(p[1], p[2])' = StoredView(p[1], p[2])]_vars

-----------------------------------------------------------------------------
(* Claims about FileStorageRepository                                      *)

\* C4: save_workout_execution for an execution whose entry exists completes
\* and advances the entry's statistics: once the execution is recorded and
\* the entry found, the call can go on into update_workout_entry.
C4_ExecutionCompletes ==
    \A t \in Threads : rpc[t] = "update_stats" => ENABLED UpdateWorkoutEntry(t)

\* C5: when the process dies during a write, every target file (workouts,
\* progress, profiles) holds complete content, never a partly written one.
C5_WritesAtomic ==
    crashed => /\ \A u \in RepoUsers : wfile[u].shape # "partial"
               /\ \A u \in RepoUsers : pfile[u].shape # "partial"
               /\ profiles.shape # "partial"

\* C6: after delete_workout_entry(user, id) for an id that was in a plan or in
\* the standalone list, get_workout_entry(user, id) returns None.
C6_DeleteThenGet ==
    (rdone.op = "delete_workout_entry" /\ rdone.result = "ok" /\ rdone.hit)
        => GetWorkoutEntry(wfile[rdone.user], rdone.id) = [err |-> "", val |-> None]

\* C7: after save_workout_plan(plan), get_workout_entry for every entry id of
\* the plan returns an entry of the plan that has this id.
C7_SavePlanThenGet ==
    (rdone.op = "save_workout_plan" /\ rdone.result = "ok")
        => \A i \in DOMAIN rdone.arg.entries :
              LET got == GetWorkoutEntry(wfile[rdone.user], rdone.arg.entries[i].entry_id)
              IN /\ got.err = ""
                 /\ got.val # None
                 /\ \E j \in DOMAIN rdone.arg.entries :
                       /\ rdone.arg.entries[j].entry_id = rdone.arg.entries[i].entry_id
                       /\ rdone.arg.entries[j] = got.val[1]

\* The standalone list before and after the save_standalone_workout call that
\* has just returned, and where the list held the id before (0: nowhere).
C8_Before == LoadWorkoutData(rdone.pre).standalone_workouts
C8_After == wfile[rdone.user].standalone_workouts
C8_Position ==
    IF \E i \in DOMAIN C8_Before : C8_Before[i].entry_id = rdone.id
    THEN CHOOSE i \in DOMAIN C8_Before : C8_Before[i].entry_id = rdone.id
    ELSE 0

C9_UpdateAbsentFails ==
    (/\ rdone.op = "update_workout_entry"
     /\ \A i \in DOMAIN PlanEntries(rdone.pre.plans) :
           PlanEntries(rdone.pre.plans)[i].entry_id # rdone.id
     /\ \A i \in DOMAIN rdone.pre.standalone_workouts :
           rdone.pre.standalone_workouts[i].entry_id # rdone.id)
        => /\ rdone.result = "StorageError"
           /\ wfile[rdone.user] = rdone.pre

\* C10: the writers of one user's files are serialized by the lock: whenever
\* no call is in progress, the files hold what the calls made so far leave
\* when each runs in one step, in the order in which they took the lock.
C10_WritesSerialized ==
    (~crashed /\ \A t \in Threads : rpc[t] = "idle")
        => /\ \A u \in RepoUsers : wfile[u] = wspec[u]
           /\ \A u \in RepoUsers : pfile[u] = pspec[u]

\* Two threads have written one after the other, and both writes are there.
C10_Witness ==
    /\ ~crashed
    /\ \A t \in Threads : rpc[t] = "idle"
    /\ rdone.op = "save_standalone_workout"
    /\ rdone.result = "ok"
    /\ rdone.after # ""
    /\ rdone.after # rdone.by
    /\ Len(rdone.pre.standalone_workouts) = 1
    /\ Len(wfile[rdone.user].standalone_workouts) = 2
    /\ wfile[rdone.user] = wspec[rdone.user]

\* The entry id is in a plan or in the standalone list of the stored data.
Stored(f, entry_id) ==
    \/ \E i \in DOMAIN PlanEntries(f.plans) : PlanEntries(f.plans)[i].entry_id = entry_id
    \/ \E i \in DOMAIN f.standalone_workouts : f.standalone_workouts[i].entry_id = entry_id

\* C11: save_workout_execution for an execution whose entry is in no plan and
\* not in the standalone list returns without error, with the execution at
\* the end of the history and the workouts data unchanged.
C11_ExecutionOfMissingEntry ==
    (rdone.op = "save_workout_execution" /\ ~Stored(rdone.pre, rdone.id))
        => /\ rdone.result = "ok"
           /\ wfile[rdone.user] = rdone.pre
           /\ pfile[rdone.user].workout_executions # <<>>
           /\ pfile[rdone.user].workout_executions[Len(pfile[rdone.user].workout_executions)]
                 = rdone.arg

\* C16: every plan stored for a user has at least one entry.
C16_PlansNonEmpty ==
    \A u \in RepoUsers : \A i \in DOMAIN wfile[u].plans : wfile[u].plans[i].entries # <<>>

\* All entries stored for a user: those of the plans, then the standalone ones.
Corpus(f) == PlanEntries(f.plans) \o f.standalone_workouts

\* C17: each entry id occurs at most once among the entries of all plans and
\* the standalone entries of a user.
C17_EntryIdsUnique ==
    \A u \in RepoUsers : \A i, j \in DOMAIN Corpus(wfile[u]) :
        Corpus(wfile[u])[i].entry_id = Corpus(wfile[u])[j].entry_id => i = j

\* The first entry of the sequence with the id, None when there is none.
FirstWithId(entries, entry_id) ==
    IF \E i \in DOMAIN entries : entries[i].entry_id = entry_id
    THEN Some(entries[CHOOSE i \in DOMAIN entries :
                          /\ entries[i].entry_id = entry_id
                          /\ \A j \in 1 .. (i - 1) : entries[j].entry_id # entry_id])
    ELSE None

\* C18: on the stored data of a user (no write being in progress),
\* get_workout_entry(user, id) returns the first entry with the id among the
\* plans' entries in storage order; if no plan has the id, the first one in the
\* standalone list; and None only when the id is in neither.
C18_GetSearchOrder ==
    \A u \in RepoUsers, id \in EntryIds :
        wfile[u].shape # "partial"
            => LET got == GetWorkoutEntry(wfile[u], id)
                   inPlans == FirstWithId(PlanEntries(wfile[u].plans), id)
               IN /\ got.err = ""
                  /\ got.val = IF inPlans # None THEN inPlans
                               ELSE FirstWithId(wfile[u].standalone_workouts, id)
                  /\ got.val = None <=> ~Stored(wfile[u], id)

\* The entries of the sequence that are on the day, in their order.
RECURSIVE OfDay(_, _)
OfDay(entries, day) ==
    IF entries = <<>> THEN <<>>
    ELSE (IF Head(entries).day_of_week = day THEN <<Head(entries)>> ELSE <<>>)
            \o OfDay(Tail(entries), day)

\* C19: on the stored data of a user (no write being in progress),
\* get_all_workout_entries returns the plans' entries in storage order followed
\* by the standalone entries, and get_workout_entries_by_day those of them
\* that are on the day, with nothing left out for a repeated id.
C19_ListingOrder ==
    \A u \in RepoUsers :
        wfile[u].shape # "partial"
            => /\ GetAllWorkoutEntries(wfile[u]) = [err |-> "", val |-> Corpus(wfile[u])]
               /\ \A day \in {"mon", "tue"} :
                     GetWorkoutEntriesByDay(wfile[u], day) =
                         [err |-> "", val |-> OfDay(Corpus(wfile[u]), day)]

\* Where the plan list held the plan id before the save_workout_plan call that
\* has just ended (0: nowhere).
C20_Position ==
    IF \E i \in DOMAIN rdone.pre.plans : rdone.pre.plans[i].plan_id = rdone.id
    THEN CHOOSE i \in DOMAIN rdone.pre.plans : rdone.pre.plans[i].plan_id = rdone.id
    ELSE 0

\* C20: save_workout_plan is an upsert by plan id: the call returns, a plan
\* with a stored id replaces the stored plan at its position, a plan with a new
\* id is appended, and the other plans and the standalone list are unchanged.
C20_PlanUpsert ==
    rdone.op = "save_workout_plan"
        => /\ rdone.result = "ok"
           /\ wfile[rdone.user].standalone_workouts = rdone.pre.standalone_workouts
           /\ wfile[rdone.user].plans =
                 IF C20_Position = 0 THEN Append(rdone.pre.plans, rdone.arg)
                 ELSE [rdone.pre.plans EXCEPT ![C20_Position] = rdone.arg]

\* The plans, the entries of a plan and the standalone list of the workouts
\* file before the update_workout_entry call that has just ended, and where
\* they hold the id first (0: nowhere).
C21_Plan ==
    IF \E p \in DOMAIN rdone.pre.plans : \E i \in DOMAIN rdone.pre.plans[p].entries :
           rdone.pre.plans[p].entries[i].entry_id = rdone.id
    THEN CHOOSE p \in DOMAIN rdone.pre.plans :
            /\ \E i \in DOMAIN rdone.pre.plans[p].entries :
                  rdone.pre.plans[p].entries[i].entry_id = rdone.id
            /\ \A q \in 1 .. (p - 1) : \A i \in DOMAIN rdone.pre.plans[q].entries :
                  rdone.pre.plans[q].entries[i].entry_id # rdone.id
    ELSE 0
C21_Entry ==
    CHOOSE i \in DOMAIN rdone.pre.plans[C21_Plan].entries :
        /\ rdone.pre.plans[C21_Plan].entries[i].entry_id = rdone.id
        /\ \A j \in 1 .. (i - 1) : rdone.pre.plans[C21_Plan].entries[j].entry_id # rdone.id
C21_Standalone ==
    CHOOSE i \in DOMAIN rdone.pre.standalone_workouts :
        /\ rdone.pre.standalone_workouts[i].entry_id = rdone.id
        /\ \A j \in 1 .. (i - 1) : rdone.pre.standalone_workouts[j].entry_id # rdone.id

\* C21: update_workout_entry(user, id, new_entry) for an id that is stored
\* returns, having replaced one stored copy at its position: the first one in
\* the first plan that has the id, or else the first one of the standalone
\* list; every other entry and plan is as it was.
C21_UpdateReplacesOne ==
    (rdone.op = "update_workout_entry" /\ Stored(rdone.pre, rdone.id))
        => /\ rdone.result = "ok"
           /\ IF C21_Plan # 0
              THEN /\ wfile[rdone.user].plans =
                         [rdone.pre.plans EXCEPT ![C21_Plan].entries[C21_Entry] = rdone.arg]
                   /\ wfile[rdone.user].standalone_workouts = rdone.pre.standalone_workouts
              ELSE /\ wfile[rdone.user].plans = rdone.pre.plans
                   /\ wfile[rdone.user].standalone_workouts =
                         [rdone.pre.standalone_workouts EXCEPT ![C21_Standalone] = rdone.arg]

RECURSIVE Without(_, _)
\* The entries of the sequence that do not have the id, in their order.
Without(entries, entry_id) ==
    IF entries = <<>> THEN <<>>
    ELSE (IF Head(entries).entry_id = entry_id THEN <<>> ELSE <<Head(entries)>>)
            \o Without(Tail(entries), entry_id)

\* C22: delete_workout_entry(user, id) returns without error, whether the id
\* is stored or not; after it every plan and the standalone list hold their
\* other entries in their order and the id nowhere, so that for an id that was
\* not stored (as on the second of two calls) the plans and the standalone
\* list are unchanged.
C22_DeleteIdempotent ==
    rdone.op = "delete_workout_entry"
        => /\ rdone.result = "ok"
           /\ ~Stored(wfile[rdone.user], rdone.id)
           /\ wfile[rdone.user].plans =
                 [p \in DOMAIN rdone.pre.plans |->
                     [rdone.pre.plans[p] EXCEPT !.entries = Without(@, rdone.id)]]
           /\ wfile[rdone.user].standalone_workouts =
                 Without(rdone.pre.standalone_workouts, rdone.id)
           /\ ~Stored(rdone.pre, rdone.id)
                 => /\ wfile[rdone.user].plans = rdone.pre.plans
                    /\ wfile[rdone.user].standalone_workouts = rdone.pre.standalone_workouts

\* C23: when save_profile(profile) has returned, get_profile(user) returns a
\* profile equal to it in every field, whatever profile the user had before,
\* and users.json holds under each user id one profile, that of this user.
C23_SaveProfileReplaces ==
    /\ (rdone.op = "save_profile" /\ rdone.result = "ok")
          => GetProfile(profiles, rdone.user) = [err |-> "", val |-> Some(rdone.arg)]
    /\ \A u \in DOMAIN profiles.data : profiles.data[u].user_id = u

\* The profile saved replaced another one, which another thread had saved.
C23_Witness ==
    /\ rdone.op = "save_profile"
    /\ rdone.result = "ok"
    /\ rdone.hit
    /\ rdone.after # ""
    /\ rdone.after # rdone.by
    /\ rdone.arg.age = 28
    /\ GetProfile(profiles, rdone.user).val = Some(rdone.arg)

\* The calls that write the workouts file, and those that write the progress
\* file, when they return.
C28_WorkoutsWriters ==
    {"save_workout_plan", "create_plan_from_workouts", "save_standalone_workout",
     "update_workout_entry", "delete_workout_entry"}
C28_ProgressWriters == {"add_progress_entry", "save_workout_execution"}

\* list_progress (file_storage.py:324-326): the body-progress items as read
C28_AsRead(body_progress) ==
    [i \in DOMAIN body_progress |-> ParseProgressEntry(body_progress[i])]

\* C28: a bare-array workouts file is read as its plans with no standalone
\* entry, and a bare-array progress file as its body-progress items with no
\* execution; when a call that writes the file has returned, the file has the
\* modern shape, every plan of the bare array is at its position (unchanged
\* unless it is the plan the call saved or holds the entry the call updated or
\* deleted), and the body-progress items read as before, followed by the one
\* the call added.
C28_LegacyShape ==
    /\ \A u \in RepoUsers :
          wfile[u].shape = "legacy"
              => /\ LoadWorkoutData(wfile[u]) =
                       [err |-> "", plans |-> wfile[u].plans, standalone_workouts |-> <<>>]
                 /\ wfile[u].plans # <<>>
                 /\ GetAllWorkoutEntries(wfile[u]) =
                       [err |-> "", val |-> PlanEntries(wfile[u].plans)]
    /\ \A u \in RepoUsers :
          pfile[u].shape = "legacy"
              => LoadProgressData(pfile[u]) =
                    [err |-> "", body_progress |-> pfile[u].body_progress,
                     workout_executions |-> <<>>]
    /\ (rdone.pre.shape = "legacy" /\ rdone.result = "ok" /\ rdone.op \in C28_WorkoutsWriters)
          => /\ wfile[rdone.user].shape = "json"
             /\ Len(wfile[rdone.user].plans) >= Len(rdone.pre.plans)
             /\ \A i \in DOMAIN rdone.pre.plans :
                   \/ wfile[rdone.user].plans[i] = rdone.pre.plans[i]
                   \/ rdone.pre.plans[i].plan_id = rdone.id
                   \/ \E j \in DOMAIN rdone.pre.plans[i].entries :
                         rdone.pre.plans[i].entries[j].entry_id = rdone.id
    /\ (rdone.ppre.shape = "legacy" /\ rdone.result = "ok" /\ rdone.op \in C28_ProgressWriters)
          => /\ pfile[rdone.user].shape = "json"
             /\ C28_AsRead(pfile[rdone.user].body_progress) =
                   IF rdone.op = "add_progress_entry"
                   THEN Append(C28_AsRead(rdone.ppre.body_progress), rdone.arg)
                   ELSE C28_AsRead(rdone.ppre.body_progress)

\* A standalone workout has been saved into a bare-array workouts file, whose
\* plan is still there, after an entry was added to a bare-array progress file.
C28_Witness ==
    /\ rdone.op = "save_standalone_workout"
    /\ rdone.result = "ok"
    /\ rdone.pre.shape = "legacy"
    /\ wfile[rdone.user].shape = "json"
    /\ wfile[rdone.user].plans = rdone.pre.plans
    /\ wfile[rdone.user].standalone_workouts = <<rdone.arg>>
    /\ pfile[rdone.user].shape = "json"
    /\ pfile[rdone.user].body_progress =
          <<ParseProgressEntry(LegacyProgressItem), [weight |-> 70]>>

\* A write of the user's progress file is in progress.
ProgressWriteInProgress(u) ==
    \E t \in Threads : rpc[t] = "save_progress_data" /\ rloc[t].user = u

\* C29: the execution history is append-only: unless a write of the progress
\* file is in progress, the file holds the executions that the completed
\* save_workout_execution writes have stored, each once, in the order of the
\* writes, whatever repository calls have been made since.
C29_HistoryAppendOnly ==
    \A u \in RepoUsers :
        ~ProgressWriteInProgress(u) => pfile[u].workout_executions = history[u]

\* C30: every repository write call returns and leaves the lock released: a
\* thread that is inside a call can take the next step of the call, and when
\* no thread is inside a call the lock is free.
C30_WritesReturn ==
    /\ \A t \in Threads : rpc[t] \notin {"idle", "dead"} => ENABLED RepoStep(t)
    /\ (\A t \in Threads : rpc[t] \in {"idle", "dead"}) => repoLock = ""

-----------------------------------------------------------------------------
(* C24: in the profile flow, valid values for the seven fields, submitted  *)
(* in the order of the fields, bring the flow to the summary with every    *)
(* field collected; saving stores a profile that holds exactly those       *)
(* values, also when the user already had another profile.                 *)

\* All seven values have been submitted in order since the flow began at its
\* first field.
C24_Complete == inOrder.ok /\ Len(inOrder.vals) = Len(PROFILE_FIELDS_ORDER)

\* The profile made of the values submitted.
C24_Submitted ==
    [user_id |-> FlowUser, age |-> inOrder.vals[1], gender |-> inOrder.vals[2],
     weight |-> inOrder.vals[3], goal |-> inOrder.vals[4], experience |-> inOrder.vals[5],
     preferred_location |-> inOrder.vals[6], workout_time |-> inOrder.vals[7],
     updated_at |-> 1]

\* C24: once the seven values are in, the flow is at the summary and the
\* state holds each value under its field and nothing else but the user id,
\* until the save is done; from then on the state is gone and the stored
\* profile is the profile of those values.
C24_InOrderProfile ==
    C24_Complete =>
        LET ref == GetStateIn(StoreNow, FlowUser, ProfileFlow)
            collected_data == heap[ref].collected_data
        IN IF ref # 0
           THEN /\ heap[ref].current_field_index = Len(PROFILE_FIELDS_ORDER)
                /\ ShowSummary(StoreNow, FlowUser).shown = "summary"
                /\ (DOMAIN collected_data) \ {"user_id"} =
                       {PROFILE_FIELDS_ORDER[i] : i \in DOMAIN PROFILE_FIELDS_ORDER}
                /\ \A i \in DOMAIN PROFILE_FIELDS_ORDER :
                       collected_data[PROFILE_FIELDS_ORDER[i]] = inOrder.vals[i]
           ELSE GetProfile(profiles, FlowUser) = [err |-> "", val |-> Some(C24_Submitted)]

\* A second complete run has been saved over the profile of a first one that
\* had another weight, both weights being numbers.
C24_Witness ==
    /\ C24_Complete
    /\ flast.shown = "saved"
    /\ FlowUser \in DOMAIN flast.before
    /\ flast.before[FlowUser].weight.kind = "float"
    /\ inOrder.vals[3].kind = "float"
    /\ flast.before[FlowUser].weight # inOrder.vals[3]
    /\ GetProfile(profiles, FlowUser).val = Some(C24_Submitted)

(***************************************************************************)
(* C25: the profile save step                                              *)
(***************************************************************************)
C25_State == GetStateIn(StoreNow, FlowUser, ProfileFlow)

\* C25: while save_profile of the repository has not returned the state of
\* the profile flow is present; when the save step has ended with an error,
\* from validation or from the repository, the state is present and the
\* stored profiles are those of before the step; when it has ended with the
\* state cleared, save_profile of the repository had returned without error.
C25_ClearAfterSave ==
    /\ fpc = "save_profile" => C25_State # 0
    /\ flast.shown = "save_error" =>
           /\ C25_State # 0
           /\ profiles.data = flast.before
    /\ flast.shown = "saved" =>
           /\ C25_State = 0
           /\ rdone.op = "save_profile"
           /\ rdone.result = "ok"
           /\ FlowUser \in DOMAIN profiles.data

\* The repository has raised in a save step of a complete, valid state.
C25_Witness ==
    /\ flast.shown = "save_error"
    /\ rdone.op = "save_profile"
    /\ rdone.result = "OSError"
    /\ C25_State # 0
    /\ ShowSummary(StoreNow, FlowUser).shown = "summary"
    /\ profiles.data = flast.before

(***************************************************************************)
(* C26: malformed and out-of-range values of the typed fields              *)
(***************************************************************************)
\* The text is a number from lo to hi.
C26_InRange(text, lo, hi) == text.kind = "digits" /\ lo <= text.val /\ text.val <= hi

\* The step has asked again for the field and has left the conversation
\* states and the files of the repository as they were.
C26_AskedAgain(field) ==
    /\ field \in nextStep'
    /\ flast'.shown = "retry_" \o field
    /\ UNCHANGED <<states, heap, profiles, wfile, pfile>>

\* Every text of the two sets that is not a number of the range of its field
\* is answered by asking again.
C26_Rejected(profileTexts, workoutTexts) ==
    /\ \A text \in profileTexts :
           /\ ~C26_InRange(text, 10, 100) /\ HandleAgeInputOf(text) => C26_AskedAgain("age")
           /\ ~C26_InRange(text, 20, 300) /\ HandleWeightInputOf(text) =>
                  C26_AskedAgain("weight")
    /\ \A text \in workoutTexts :
           /\ ~C26_InRange(text, 1, 100) /\ HandleRepsInputOf(text) => C26_AskedAgain("reps")
           /\ ~C26_InRange(text, 1, 10) /\ HandleSetsInputOf(text) => C26_AskedAgain("sets")
           /\ ~C26_InRange(text, 0, 500) /\ HandleExerciseWeightInputOf(text) =>
                  C26_AskedAgain("exercise_weight")

\* C26: a malformed or out-of-range value typed for age, profile weight,
\* reps, sets or exercise weight is answered by asking for the same field
\* again, and the step changes neither a conversation state nor a file of the
\* repository.
C26_MalformedReprompts == [][C26_Rejected(ProfileTexts, WorkoutTexts)]_vars

\* The same for every text but "nan".
C26_MalformedButNanReprompts ==
    [][C26_Rejected(ProfileTexts \ {NanText}, WorkoutTexts \ {NanText})]_vars

\* A profile whose weight is not a number has been saved.
C26_NanStored ==
    /\ FlowUser \in DOMAIN profiles.data
    /\ profiles.data[FlowUser].weight = NaN

(***************************************************************************)
(* C27: the life of a conversation state                                   *)
(***************************************************************************)
C27_Absent(state_type) == GetStateIn(StoreNow, FlowUser, state_type) = 0

\* The events of a flow that is under way.
C27_ProfileStep ==
    \/ ProfileEditSummaryCallback
    \/ HandleAgeInput
    \/ HandleWeightInput
    \/ HandleButtonSelection
    \/ ConversationSaveProfile
    \/ CancelProfileCreation

C27_WorkoutStep ==
    \/ HandleDaySelection
    \/ ShowExercisesByCategory
    \/ HandleExerciseSelection
    \/ HandleRepsInput
    \/ HandleSetsSelection
    \/ AskSetsManual
    \/ HandleSetsInput
    \/ HandleWeightSkip
    \/ AskWeightManual
    \/ HandleExerciseWeightInput
    \/ SaveWorkout
    \/ CancelWorkoutCreation

\* Nothing is written to the state store or to the repository, and no call
\* of the repository is begun.
C27_NothingWritten ==
    UNCHANGED <<states, state_timestamps, heap, wfile, pfile, profiles, profilesTmp, rpc>>

C27_Lifecycle ==
    /\ StartProfileCreation /\ flast'.shown = "ask_age" => ~C27_Absent(ProfileFlow)'
    /\ ProfileEditCallback => ~C27_Absent(ProfileFlow)'
    /\ StartWorkoutCreation => ~C27_Absent(WorkoutFlow)'
    /\ flast'.shown \in {"saved", "cancelled"} => C27_Absent(ProfileFlow)'
    /\ flast'.shown \in {"workout_saved", "workout_cancelled"} => C27_Absent(WorkoutFlow)'
    /\ C27_Absent(ProfileFlow) /\ C27_ProfileStep => C27_NothingWritten
    /\ C27_Absent(WorkoutFlow) /\ C27_WorkoutStep => C27_NothingWritten

\* C27: the start of a flow leaves its state present; the step that reports
\* a successful save or a cancellation leaves it absent; and an event of a
\* flow whose state is absent writes nothing to the state store or to the
\* repository.
C27_StateLifecycle == [][C27_Lifecycle]_vars

\* An event of the profile flow has found no state after a successful save.
C27_Witness ==
    /\ flast.shown = "expired"
    /\ C27_Absent(ProfileFlow)
    /\ rdone.op = "save_profile"
    /\ rdone.result = "ok"
    /\ FlowUser \in DOMAIN profiles.data

\* The same of the workout flow.
C27_WorkoutWitness ==
    /\ flast.shown = "expired"
    /\ C27_Absent(WorkoutFlow)
    /\ rdone.op = "save_standalone_workout"
    /\ rdone.result = "ok"

(***************************************************************************)
(* C31: reads that run while a file is being written                       *)
(***************************************************************************)
\* file_storage.py:145-150: the plans are loaded and parsed.
GetWorkoutPlans(f) ==
    LET d == LoadWorkoutData(f)
    IN IF d.err # "" THEN [err |-> d.err, val |-> <<>>]
       ELSE IF ParsePlansFails(d.plans) THEN [err |-> "ValidationError", val |-> <<>>]
       ELSE [err |-> "", val |-> d.plans]

\* file_storage.py:343-351: the executions of the user, or those of one entry
GetWorkoutExecutions(f, workout_entry_id) ==
    LET d == LoadProgressData(f)
        OfEntry(e) == e.workout_entry_id = workout_entry_id[1]
    IN IF d.err # "" THEN [err |-> d.err, val |-> <<>>]
       ELSE IF workout_entry_id = None THEN [err |-> "", val |-> d.workout_executions]
       ELSE [err |-> "", val |-> SelectSeq(d.workout_executions, OfEntry)]

\* What the reads of the workouts file return from the file f.
C31_WorkoutReads(f) ==
    [entry |-> [id \in EntryIds |-> GetWorkoutEntry(f, id)],
     all |-> GetAllWorkoutEntries(f),
     plans |-> GetWorkoutPlans(f)]

\* What get_workout_executions returns from the file f.
C31_ProgressReads(f) ==
    [id \in {None} \cup {Some(e) : e \in EntryIds} |-> GetWorkoutExecutions(f, id)]

\* C31: while a call is writing the workouts file or the progress file of a
\* user, a read of that file returns what it would have returned from the
\* file before the write or from the file after it; while save_profile is
\* writing, the profiles are read without error (users.json is the file of
\* before the write until the rename).
C31_ReadsSeeBeforeOrAfter ==
    ~crashed =>
        \A t \in Threads :
            LET u == rloc[t].user
            IN /\ rpc[t] = "save_workout_data" =>
                      C31_WorkoutReads(wfile[u]) \in
                          {C31_WorkoutReads(rloc[t].pre), C31_WorkoutReads(rloc[t].buf)}
               /\ rpc[t] = "save_progress_data" =>
                      C31_ProgressReads(pfile[u]) \in
                          {C31_ProgressReads(rloc[t].ppre), C31_ProgressReads(rloc[t].buf)}
               /\ rpc[t] \in {"write_json", "replace"} => ReadJson(profiles).err = ""

\* The same of get_profile alone, whose file is replaced by a rename: the
\* profiles are never read from a partly written file.
C31_ProfileReadsWhole == ~crashed => ReadJson(profiles).err = ""

(***************************************************************************)
(* C32: update_state that overlaps a clear or an expiry                    *)
(***************************************************************************)
\* The update_state call of thread t is the only one in flight, it is about
\* to store its dict, and the entry it read has meanwhile been cleared or has
\* expired (or was absent from the start): get_state would return None.
C32_EntryGone(t) ==
    /\ spc[t] = "upd_set"
    /\ Len(episode.parts) = 1
    /\ GetView(sloc[t].user, sloc[t].flow) = None

\* C32: an update_state(user, flow, partial) whose entry has been cleared or
\* has expired by the time it stores its result leaves exactly partial, as
\* the serial order clear-then-update does: no key of the state that was
\* cleared comes back.
C32_UpdateAfterClear ==
    [][\A t \in Threads, p \in Pairs :
          (C32_EntryGone(t) /\ p = <<sloc[t].user, sloc[t].flow>> /\ UpdateStateSet(t))
              => GetView(p[1], p[2])' = Some(sloc[t].arg)]_vars

(***************************************************************************)
(* C33: a save event of the workout flow delivered twice                   *)
(***************************************************************************)
\* C33: when the handlers of both deliveries of one save event have made
\* their repository call, the standalone list of the user has one entry more
\* than before the event.
C33_OneEntryPerFlow ==
    (fdup.pc = "repo" /\ rpc[DupThread] = "idle" /\ rdone.result = "ok")
        => Len(LoadWorkoutData(wfile[FlowUser]).standalone_workouts) = fdup.base + 1

(***************************************************************************)
(* C34: entries of distinct pairs                                          *)
(***************************************************************************)
\* Thread t takes a step of a set_state, update_state or clear_state call on
\* the pair p.
C34_CallOn(t, p) ==
    \/ /\ StartsCall(t)
       /\ \E state \in InputStates :
              SetStateBody(t, p[1], p[2], Fresh, Put(heap, Fresh, state), sloc)
    \/ /\ p = <<sloc[t].user, sloc[t].flow>>
       /\ UpdateStateMerge(t) \/ UpdateStateSet(t)
    \/ /\ spc[t] = "idle"
       /\ ClearStateOn(t, p)

\* A call on a pair of the set leaves what get_state returns for each other
\* pair of the set as it was.
C34_Framed(pairs) ==
    \A t \in Threads, p \in pairs, q \in pairs :
        (p # q /\ C34_CallOn(t, p)) => GetView(q[1], q[2])' = GetView(q[1], q[2])

\* C34: a set_state, update_state or clear_state on one (user, flow) pair
\* never changes what get_state returns for a different pair, whatever
\* strings the user ids and the flow kinds are.
C34_PairsIndependent == [][C34_Framed(Pairs)]_vars

\* The same for two pairs that have different keys.
C34_PlainPairsIndependent == [][C34_Framed({<<"a", "c">>, <<"a:b", "c">>})]_vars

(***************************************************************************)
(* C35: the state map and the timestamp map                                *)
(***************************************************************************)
\* The pair has a stored state exactly if it has a timestamp.
C35_Agrees(p) == (Key(p[1], p[2]) \in DOMAIN states) <=> HasTimestamp(p)

\* C35: in every state of the store, each (user, flow) pair has a stored
\* state if and only if it has a timestamp.
C35_MapsAgree == \A p \in Pairs : C35_Agrees(p)

\* The same for the pair whose key no other pair has and no other user id is
\* a prefix of.
C35_PlainPairAgrees == C35_Agrees(<<"a", "c">>)


-----------------------------------------------------------------------------
(* C36: the step pointer and the collected fields *)

\* The first i fields of the field order have a value in the state.
C36_FirstCollected(state, i) ==
    \A k \in DOMAIN PROFILE_FIELDS_ORDER :
        k <= i => PROFILE_FIELDS_ORDER[k] \in DOMAIN state.collected_data

\* C36: in the profile flow, whatever text and button events arrive, buttons
\* of earlier questions pressed again among them, when the step pointer
\* current_field_index is i the collected data has a value for each of the
\* first i fields of the field order, and the summary step is never reached
\* with a field missing.
C36_PointerCoversFields ==
    LET ref == GetStateIn(StoreNow, FlowUser, ProfileFlow)
    IN /\ ref # 0 => C36_FirstCollected(heap[ref], heap[ref].current_field_index)
       /\ flast.shown # "missing_fields"

\* The same as long as the values have come in the order of the fields.
C36_InOrderPointerCoversFields ==
    LET ref == GetStateIn(StoreNow, FlowUser, ProfileFlow)
    IN inOrder.ok =>
          /\ ref # 0 => C36_FirstCollected(heap[ref], heap[ref].current_field_index)
          /\ flast.shown # "missing_fields"

-----------------------------------------------------------------------------
(* C37: the exercises of the workout flow and what save_workout persists *)

C37_State == GetStateIn(StoreNow, FlowUser, WorkoutFlow)

\* Every exercise of the list in progress has a name, a number of repetitions
\* and a number of sets.
C37_ListComplete ==
    C37_State # 0 =>
        \A i \in DOMAIN heap[C37_State].exercises :
            LET ex_data == heap[C37_State].exercises[i]
            IN /\ ex_data.name \in {CategoryExercises[k] : k \in DOMAIN CategoryExercises}
               /\ ex_data.reps # None
               /\ ex_data.sets # None

\* save_workout has called the repository and ends: the entry it has
\* persisted has the day and the exercises of the state, in their order, it
\* is the one entry added to the file, and the state is cleared; or the file
\* is as it was.
C37_SaveStep ==
    (fpc = "save_workout" /\ fpc' = "idle") =>
        LET state == heap[C37_State]
            workout_entry == rdone.arg
        IN IF rdone.result = "ok"
           THEN /\ C37_State # 0
                /\ workout_entry.day_of_week = state.day_of_week[1]
                /\ workout_entry.exercises
                      = [i \in DOMAIN state.exercises |-> BuildExercise(state.exercises[i]).val[1]]
                /\ LoadWorkoutData(wfile[FlowUser]).standalone_workouts
                      = Append(LoadWorkoutData(rdone.pre).standalone_workouts, workout_entry)
                /\ LoadWorkoutData(wfile[FlowUser]).plans = LoadWorkoutData(rdone.pre).plans
                /\ C27_Absent(WorkoutFlow)'
           ELSE wfile[FlowUser] = rdone.pre

\* save_workout ends without a repository call: the file and the state are
\* as they were.
C37_NoSaveStep ==
    (fpc = "idle" /\ flast' \in {Ran("no_day"), Ran("no_exercises")})
        => (wfile' = wfile /\ StoreNow' = StoreNow)

\* C37: in the workout flow, whatever step events arrive, buttons of earlier
\* questions pressed out of turn among them, every exercise appended to the
\* list in progress has a name, a number of repetitions and a number of sets,
\* and save_workout persists an entry with the chosen day and exactly the
\* collected exercises in order and clears the state, or persists nothing.
C37_CompleteExercisesSavedWhole ==
    []C37_ListComplete /\ [][C37_SaveStep /\ C37_NoSaveStep]_vars

\* The part about save_workout alone.
C37_SavedWhole == [][C37_SaveStep /\ C37_NoSaveStep]_vars

-----------------------------------------------------------------------------
(* C38: the data of the other users *)

\* What the repository returns for a user: the profile, the workout entries
\* and plans, and the executions.
C38_Returned(user_id) ==
    [profile |-> GetProfile(profiles, user_id),
     workouts |-> C31_WorkoutReads(wfile[WorkoutPath(user_id)]),
     executions |-> C31_ProgressReads(pfile[ProgressPath(user_id)])]

\* Thread t takes the step, and the user its call is for.
C38_Steps(t) ==
    \/ rpc'[t] # rpc[t]
    \/ rloc'[t] # rloc[t]
    \/ rdone' # rdone /\ rdone'.by = t

C38_Caller(t) ==
    IF rpc[t] # "idle" THEN rloc[t].user
    ELSE IF rpc'[t] # "idle" THEN rloc'[t].user
    ELSE rdone'.user

\* No step of a call for one of the users changes what is returned for
\* another of them.
C38_Framed(users) ==
    \A t \in Threads : \A b \in users :
        (C38_Steps(t) /\ C38_Caller(t) \in users \ {b})
            => C38_Returned(b)' = C38_Returned(b)

\* C38: a repository write for a user A (profile, plan, standalone entry,
\* deletion, execution) leaves the profile, the plans, the entries and the
\* executions returned for every other user B as they were, also when A and B
\* write at the same time.
C38_OtherUsersUnchanged == [][C38_Framed(UserIds)]_vars

\* The same for two users whose files have different paths.
C38_PlainUsersUnchanged == [][C38_Framed({"u1", "u2"})]_vars

\* The same for the profiles alone, of all the users.
C38_OtherProfilesUnchanged ==
    [][\A t \in Threads : \A b \in UserIds :
          (C38_Steps(t) /\ C38_Caller(t) # b)
              => GetProfile(profiles, b)' = GetProfile(profiles, b)]_vars

=========================================================================
